---- MODULE Spec2Model ----
(***************************************************************************)
(* clustercost-agent-k8s: the usage collector (internal/collector), the    *)
(* snapshot builder and store (internal/snapshot), the informer cache      *)
(* (internal/kube) and the startup and orchestration loop of cmd/agent, as *)
(* one state machine; the pure functions are also called on their own.     *)
(*                                                                         *)
(* Fixed-point conventions: money is an integer number of 1/10000 USD,     *)
(* percentages are integers in 1/100 of a percent; Build computes on them  *)
(* exactly.  The rounding of Go's float64 addition is modelled apart, on   *)
(* floats of a narrow significand, for the sum of the cost shares.         *)
(* Memory quantities are small integers (bytes).                           *)
(***************************************************************************)
EXTENDS Integers, Sequences, FiniteSets, TLC

VARIABLES
    podsClient,       \* MetricsCollector.pods: TRUE when a lister is configured
    last,             \* MetricsCollector.last: the cached usage map
    cacheNodes,       \* node informer store (set of node objects)
    cacheNamespaces,  \* namespace informer store
    cachePods,        \* pod informer store
    store,            \* snapshot.Store: the single held snapshot
    ctxDone,          \* the process-level context has been cancelled
    tickerC,          \* ticker.C holds an undelivered tick (channel of capacity 1)
    pc,               \* position of the runSnapshotLoop goroutine
    nodes,            \* buildOnce local: result of NodeLister().List
    namespaces,       \* buildOnce local: result of NamespaceLister().List
    pods,             \* buildOnce local: result of PodLister().List
    usage,            \* buildOnce local: map returned by CollectPodMetrics
    metricsErr,       \* buildOnce local: error returned by CollectPodMetrics
    retErr,           \* err of runSnapshotLoop: what the last buildOnce returned, until
                      \* the next call is under way
    hist,             \* history record (observations only, never read by the program)
    synced,           \* kinds whose informer reports HasSynced (ClusterCache.synced)
    startErr,         \* main local: what cache.Start returned (NoError while it blocks)
    input,            \* arguments of the function call under study
    output,           \* value that call returned
    mu,               \* MetricsCollector.mu: who holds the RWMutex
    heap,             \* the maps made by concurrent CollectPodMetrics calls
    routines          \* the goroutines calling CollectPodMetrics concurrently

vars == << podsClient, last, cacheNodes, cacheNamespaces, cachePods, store, ctxDone,
           tickerC, pc, nodes, namespaces, pods, usage, metricsErr, retErr, hist,
           synced, startErr, input, output, mu, heap, routines >>

(***************************************************************************)
(* Bounds of the model.                                                    *)
(***************************************************************************)
MaxItems == 2        \* longest PodMetricsList the metrics source returns

MaxPods == 2         \* longest pod list handed to Build on its own

MaxAmounts == 3      \* most pods of one namespace whose cost shares are summed

MantissaBits == 4    \* significand width of the rounding floats (float64 has 53)

(***************************************************************************)
(* Go values.                                                              *)
(***************************************************************************)
NoError == ""

\* The three informers of NewClusterCache, in the order of ClusterCache.synced.
Kinds == { "nodes", "namespaces", "pods" }

\* No function call is under study.
NoCall == [fn |-> "none"]

\* An optional Go map: the nil map, or a map with the given entries.
NilMap == [isNil |-> TRUE, entries |-> [k \in {} |-> 0]]

MakeMap(f) == [isNil |-> FALSE, entries |-> f]

\* The zero kube.PodUsage.
ZeroUsage == [CPUUsageMilli |-> 0, MemoryUsageBytes |-> 0]

\* m[key] on a Go map: the zero value when the map is nil or the key is absent.
MapGet(m, key) ==
    IF (~m.isNil) /\ key \in DOMAIN m.entries THEN m.entries[key] ELSE ZeroUsage

\* len(m) on a Go map.
MapLen(m) == IF m.isNil THEN 0 ELSE Cardinality(DOMAIN m.entries)

\* The zero sync.RWMutex: no reader, no writer.
RWMutexZero == [readers |-> { }, writer |-> "none"]

\* No goroutine besides the loop calls the collector.
NoRoutines ==
    /\ mu = RWMutexZero
    /\ heap = [id \in { } |-> 0]
    /\ routines = [g \in { } |-> 0]

\* fmt.Sprintf("%s/%s", namespace, name)
PodKey(namespace, name) == namespace \o "/" \o name

(***************************************************************************)
(* The usage-metrics source (metrics.k8s.io), as the values it can return. *)
(***************************************************************************)
\* Container usage samples (ContainerMetrics.Usage, CPU in milli, memory in bytes).
ContainerA == [cpu |-> 300, mem |-> 400]

ContainerB == [cpu |-> 100, mem |-> 0]

\* The container lists a PodMetrics item can carry.
ContainerLists == { << ContainerA, ContainerB >> }

MetricsNamespaces == { "default" }

MetricsPodNames == { "pod-a", "pod-b" }

\* metricsv1beta1.PodMetrics
PodMetricsItems ==
    [Namespace : MetricsNamespaces, Name : MetricsPodNames, Containers : ContainerLists]

\* All sequences over S of length at most n.
SeqsUpTo(S, n) == UNION { [1..k -> S] : k \in 0..n }

\* metricsv1beta1.PodMetricsList.Items
PodMetricsLists == SeqsUpTo(PodMetricsItems, MaxItems)

\* The errors List can return (an API failure; the 15 s deadline or a cancellation).
QueryErrors == { "metrics unavailable", "context deadline exceeded" }

(***************************************************************************)
(* internal/collector: MetricsCollector.                                   *)
(***************************************************************************)
ErrNotConfigured == "metrics client not configured"

\* fmt.Errorf("list pod metrics: %w", err)
WrapListErr(err) == "list pod metrics: " \o err

\* The inner loop of CollectPodMetrics: the sum over one item's containers.
RECURSIVE SumContainers(_)
SumContainers(containers) ==
    IF containers = << >>
    THEN ZeroUsage
    ELSE LET rest == SumContainers(Tail(containers))
         IN  [CPUUsageMilli    |-> Head(containers).cpu + rest.CPUUsageMilli,
              MemoryUsageBytes |-> Head(containers).mem + rest.MemoryUsageBytes]

\* The outer loop of CollectPodMetrics: result[key] is assigned item by item, so a
\* later item with the same key overwrites an earlier one.
RECURSIVE PodUsageEntries(_)
PodUsageEntries(items) ==
    IF items = << >>
    THEN [k \in {} |-> ZeroUsage]
    ELSE LET n      == Len(items)
             before == PodUsageEntries(SubSeq(items, 1, n - 1))
             key    == PodKey(items[n].Namespace, items[n].Name)
         IN  [k \in (DOMAIN before) \cup {key} |->
                 IF k = key THEN SumContainers(items[n].Containers) ELSE before[k]]

\* A plausible slip: on success the fresh entries are merged into the old cache.
CollectPodMetricsMerging(configured, cached, items, listErr) ==
    IF ~configured
    THEN [usage |-> NilMap, err |-> ErrNotConfigured, last |-> cached, queried |-> FALSE]
    ELSE IF listErr # NoError
    THEN [usage |-> cached, err |-> WrapListErr(listErr), last |-> cached, queried |-> TRUE]
    ELSE LET fresh  == PodUsageEntries(items)
             old    == IF cached.isNil THEN fresh ELSE cached.entries
             merged == MakeMap([k \in (DOMAIN fresh) \cup (DOMAIN old) |->
                                  IF k \in DOMAIN fresh THEN fresh[k] ELSE old[k]])
         IN  [usage |-> merged, err |-> NoError, last |-> merged, queried |-> TRUE]

\* A plausible slip: the failure path drops the cache instead of returning it.
CollectPodMetricsNoFallback(configured, cached, items, listErr) ==
    IF ~configured
    THEN [usage |-> NilMap, err |-> ErrNotConfigured, last |-> cached, queried |-> FALSE]
    ELSE IF listErr # NoError
    THEN [usage |-> NilMap, err |-> WrapListErr(listErr), last |-> cached, queried |-> TRUE]
    ELSE LET result == MakeMap(PodUsageEntries(items))
         IN  [usage |-> result, err |-> NoError, last |-> result, queried |-> TRUE]

\* A plausible slip: with no previous cache the failure path returns an empty map.
CollectPodMetricsEmptyOnFirstFailure(configured, cached, items, listErr) ==
    IF ~configured
    THEN [usage |-> NilMap, err |-> ErrNotConfigured, last |-> cached, queried |-> FALSE]
    ELSE IF listErr # NoError
    THEN [usage |-> IF cached.isNil THEN MakeMap(PodUsageEntries(<< >>)) ELSE cached,
          err |-> WrapListErr(listErr), last |-> cached, queried |-> TRUE]
    ELSE LET result == MakeMap(PodUsageEntries(items))
         IN  [usage |-> result, err |-> NoError, last |-> result, queried |-> TRUE]

\* A plausible slip: the nil check on c.pods is missing, so the source is queried.
CollectPodMetricsNoNilCheck(configured, cached, items, listErr) ==
    IF listErr # NoError
    THEN [usage |-> cached, err |-> WrapListErr(listErr), last |-> cached, queried |-> TRUE]
    ELSE LET result == MakeMap(PodUsageEntries(items))
         IN  [usage |-> result, err |-> NoError, last |-> result, queried |-> TRUE]

\* CollectPodMetrics as a function of the collector's fields and of what the source
\* answers: the returned map, the returned error, the new value of c.last and
\* whether the source was queried.
CollectPodMetrics(configured, cached, items, listErr) ==
    IF ~configured
    THEN [usage |-> NilMap, err |-> ErrNotConfigured, last |-> cached, queried |-> FALSE]
    ELSE IF listErr # NoError
    THEN IF cached.isNil
         THEN [usage |-> NilMap, err |-> WrapListErr(listErr), last |-> cached,
               queried |-> TRUE]
         ELSE [usage |-> cached, err |-> WrapListErr(listErr), last |-> cached,
               queried |-> TRUE]
    ELSE LET result == MakeMap(PodUsageEntries(items))
         IN  [usage |-> result, err |-> NoError, last |-> result, queried |-> TRUE]

(***************************************************************************)
(* Go strings: bytes in ascending byte order, strings.ToLower,             *)
(* strings.Contains and the < of sort.Slice.                               *)
(***************************************************************************)
Alphabet == "-./0123456789ABCDEFGHIJKLMNOPQRSTUVWXYZabcdefghijklmnopqrstuvwxyz"

UpperCase == "ABCDEFGHIJKLMNOPQRSTUVWXYZ"

LowerCase == "abcdefghijklmnopqrstuvwxyz"

CharAt(str, i) == SubSeq(str, i, i)

\* Position of a one-byte string in a string, 0 when absent.
IndexOf(str, c) ==
    IF \E i \in 1..Len(str) : CharAt(str, i) = c
    THEN CHOOSE i \in 1..Len(str) : CharAt(str, i) = c
    ELSE 0

LowerChar(c) ==
    LET i == IndexOf(UpperCase, c) IN IF i = 0 THEN c ELSE CharAt(LowerCase, i)

\* strings.ToLower
RECURSIVE ToLower(_)
ToLower(str) ==
    IF Len(str) = 0
    THEN ""
    ELSE LowerChar(CharAt(str, 1)) \o ToLower(SubSeq(str, 2, Len(str)))

\* strings.Contains
Contains(str, needle) ==
    \E i \in 1..(Len(str) - Len(needle) + 1) : SubSeq(str, i, i + Len(needle) - 1) = needle

\* a < b on Go strings (bytewise lexicographic).
RECURSIVE StrLess(_, _)
StrLess(a, b) ==
    IF Len(b) = 0 THEN FALSE
    ELSE IF Len(a) = 0 THEN TRUE
    ELSE LET ca == IndexOf(Alphabet, CharAt(a, 1))
             cb == IndexOf(Alphabet, CharAt(b, 1))
         IN  IF ca # cb THEN ca < cb
             ELSE StrLess(SubSeq(a, 2, Len(a)), SubSeq(b, 2, Len(b)))

(***************************************************************************)
(* internal/snapshot: NodePriceLookup.                                     *)
(***************************************************************************)
\* NewNodePriceLookup: priceEntries is the price map in the order the range loop
\* visits it; a later entry with the same lower-cased key overwrites an earlier one.
RECURSIVE NormalizedPrices(_)
NormalizedPrices(priceEntries) ==
    IF priceEntries = << >>
    THEN [k \in {} |-> 0]
    ELSE LET n      == Len(priceEntries)
             before == NormalizedPrices(SubSeq(priceEntries, 1, n - 1))
             e      == priceEntries[n]
         IN  IF e.k = "" \/ e.v < 0
             THEN before
             ELSE [k \in (DOMAIN before) \cup {ToLower(e.k)} |->
                     IF k = ToLower(e.k) THEN e.v ELSE before[k]]

NewNodePriceLookup(priceEntries, defaultCost) ==
    [isNil |-> FALSE, prices |-> NormalizedPrices(priceEntries), defaultCost |-> defaultCost]

\* A plausible slip: the instance type is looked up as given.
PriceCaseSensitive(n, instanceType) ==
    IF n.isNil THEN 0
    ELSE IF instanceType \in DOMAIN n.prices
    THEN n.prices[instanceType]
    ELSE n.defaultCost

\* NodePriceLookup.Price
Price(n, instanceType) ==
    IF n.isNil THEN 0
    ELSE IF ToLower(instanceType) \in DOMAIN n.prices
    THEN n.prices[ToLower(instanceType)]
    ELSE n.defaultCost

(***************************************************************************)
(* internal/snapshot: EnvironmentClassifier.                               *)
(***************************************************************************)
\* One of the three loops of NewEnvironmentClassifier that fill labelValueMap.
RECURSIVE PutLabelValues(_, _, _)
PutLabelValues(m, values, env) ==
    IF values = << >>
    THEN m
    ELSE PutLabelValues([k \in (DOMAIN m) \cup {ToLower(Head(values))} |->
                            IF k = ToLower(Head(values)) THEN env ELSE m[k]],
                        Tail(values), env)

NewEnvironmentClassifier(cfg) ==
    [labelKeys |-> IF Len(cfg.LabelKeys) = 0
                   THEN << "clustercost.io/environment" >>
                   ELSE cfg.LabelKeys,
     labelValueMap |->
         PutLabelValues(
             PutLabelValues(
                 PutLabelValues([k \in {} |-> ""], cfg.ProductionLabelValues, "production"),
                 cfg.NonProdLabelValues, "nonprod"),
             cfg.SystemLabelValues, "system"),
     productionNameContains |->
         IF Len(cfg.ProductionNameContains) = 0
         THEN << "prod" >>
         ELSE [i \in 1..Len(cfg.ProductionNameContains) |->
                  ToLower(cfg.ProductionNameContains[i])],
     systemNamespaces |->
         { ToLower(cfg.SystemNamespaces[i]) : i \in 1..Len(cfg.SystemNamespaces) }]

\* The label loop of Classify from key number i on: the environment the labels
\* decide, or "" when no configured key decides.
RECURSIVE ClassifyByLabels(_, _, _)
ClassifyByLabels(c, labels, i) ==
    IF i > Len(c.labelKeys) THEN ""
    ELSE LET key == c.labelKeys[i]
         IN  IF key # "" /\ key \in DOMAIN labels /\ labels[key] # ""
             THEN IF ToLower(labels[key]) \in DOMAIN c.labelValueMap
                  THEN c.labelValueMap[ToLower(labels[key])]
                  ELSE "unknown"
             ELSE ClassifyByLabels(c, labels, i + 1)

\* A plausible slip: a label value that is not recognized falls through to the name
\* heuristics.
ClassifyFallingThrough(c, name, labels) ==
    LET byLabel   == ClassifyByLabels(c, labels, 1)
        lowerName == ToLower(name)
    IN  IF byLabel \notin { "", "unknown" } THEN byLabel
        ELSE IF \E i \in 1..Len(c.productionNameContains) :
                    /\ c.productionNameContains[i] # ""
                    /\ Contains(lowerName, c.productionNameContains[i])
        THEN "production"
        ELSE IF lowerName \in c.systemNamespaces THEN "system"
        ELSE "nonprod"

\* A plausible slip: the system-namespace set is looked up before the needles.
ClassifySystemFirst(c, name, labels) ==
    LET byLabel   == ClassifyByLabels(c, labels, 1)
        lowerName == ToLower(name)
    IN  IF byLabel # "" THEN byLabel
        ELSE IF lowerName \in c.systemNamespaces THEN "system"
        ELSE IF \E i \in 1..Len(c.productionNameContains) :
                    /\ c.productionNameContains[i] # ""
                    /\ Contains(lowerName, c.productionNameContains[i])
        THEN "production"
        ELSE "nonprod"

\* EnvironmentClassifier.Classify (a nil label map is the map without entries).
Classify(c, name, labels) ==
    LET byLabel   == ClassifyByLabels(c, labels, 1)
        lowerName == ToLower(name)
    IN  IF byLabel # "" THEN byLabel
        ELSE IF \E i \in 1..Len(c.productionNameContains) :
                    /\ c.productionNameContains[i] # ""
                    /\ Contains(lowerName, c.productionNameContains[i])
        THEN "production"
        ELSE IF lowerName \in c.systemNamespaces THEN "system"
        ELSE "nonprod"

(***************************************************************************)
(* internal/snapshot: Builder.                                             *)
(***************************************************************************)
NoLabels == [k \in {} |-> ""]

\* cloneStringMap: nil for a map without entries, a copy otherwise.
cloneStringMap(src) == IF DOMAIN src = {} THEN NilMap ELSE MakeMap(src)

InstanceTypeLabels ==
    << "node.kubernetes.io/instance-type",
       "beta.kubernetes.io/instance-type",
       "node.k8s.amazonaws.com/instance-type" >>

RECURSIVE FirstInstanceType(_, _)
FirstInstanceType(labels, i) ==
    IF i > Len(InstanceTypeLabels) THEN ""
    ELSE IF InstanceTypeLabels[i] \in DOMAIN labels /\ labels[InstanceTypeLabels[i]] # ""
    THEN labels[InstanceTypeLabels[i]]
    ELSE FirstInstanceType(labels, i + 1)

detectInstanceType(labels) == FirstInstanceType(labels, 1)

\* Insertion of one string into a list sorted by StrLess.
RECURSIVE InsertSorted(_, _)
InsertSorted(sorted, str) ==
    IF sorted = << >> THEN << str >>
    ELSE IF StrLess(str, Head(sorted)) THEN << str >> \o sorted
    ELSE << Head(sorted) >> \o InsertSorted(Tail(sorted), str)

\* sort.Strings
RECURSIVE SortStrings(_)
SortStrings(strs) ==
    IF strs = << >> THEN << >>
    ELSE InsertSorted(SortStrings(Tail(strs)), Head(strs))

formatTaint(t) ==
    IF t.Value = ""
    THEN t.Key \o ":" \o t.Effect
    ELSE t.Key \o "=" \o t.Value \o ":" \o t.Effect

\* formatTaints: nil (the empty list here) for no taints, else the sorted strings.
formatTaints(taints) == SortStrings([i \in 1..Len(taints) |-> formatTaint(taints[i])])

RECURSIVE nodeStatus(_)
nodeStatus(conditions) ==
    IF conditions = << >> THEN "Unknown"
    ELSE IF Head(conditions).Type = "Ready"
    THEN IF Head(conditions).Status = "True" THEN "Ready" ELSE "NotReady"
    ELSE nodeStatus(Tail(conditions))

PressureTypes == { "DiskPressure", "MemoryPressure", "PIDPressure" }

nodeUnderPressure(conditions) ==
    \E i \in 1..Len(conditions) :
        conditions[i].Type \in PressureTypes /\ conditions[i].Status = "True"

\* A plausible slip: the percentage is passed on as computed.
clampPercentUnbounded(value) == value

\* clampPercent, on 1/100 of a percent.
clampPercent(value) ==
    IF value < 0 THEN 0 ELSE IF value > 10000 THEN 10000 ELSE value

\* float64(usage) / float64(allocatable) * 100, in 1/100 of a percent.
PercentOf(used, allocatable) == (used * 10000) \div allocatable

\* A plausible slip: the phase of the pod is not looked at.
skipPodKeepingTerminal(pod) ==
    \/ pod.isNil
    \/ pod.NodeName = ""
    \/ pod.Deleted

skipPod(pod) ==
    \/ pod.isNil
    \/ pod.NodeName = ""
    \/ pod.Deleted
    \/ pod.Phase \in { "Succeeded", "Failed" }

RECURSIVE SumRequests(_)
SumRequests(containers) ==
    IF containers = << >>
    THEN [cpu |-> 0, mem |-> 0]
    ELSE LET rest == SumRequests(Tail(containers))
         IN  [cpu |-> Head(containers).cpu + rest.cpu,
              mem |-> Head(containers).mem + rest.mem]

sumPodRequests(pod) ==
    SumRequests(pod.Containers \o pod.InitContainers \o pod.EphemeralContainers)

\* A fresh NamespaceCostRecord with zeroed counters.
NewNamespaceRecord(clusterID, name, labels, environment) ==
    [ClusterID |-> clusterID, Namespace |-> name, HourlyCost |-> 0, PodCount |-> 0,
     CPURequestMilli |-> 0, MemoryRequestBytes |-> 0, CPUUsageMilli |-> 0,
     MemoryUsageBytes |-> 0, Labels |-> labels, Environment |-> environment]

\* ensureNamespace: the record set with a record for name in it.
ensureNamespace(set, clusterID, name, classifier) ==
    IF name \in DOMAIN set
    THEN set
    ELSE [k \in (DOMAIN set) \cup {name} |->
             IF k = name
             THEN NewNamespaceRecord(clusterID, name, MakeMap(NoLabels),
                                     Classify(classifier, name, NoLabels))
             ELSE set[k]]

\* A plausible slip: no record is made for the namespace objects; records appear
\* only as pods are met.
SeedNamespacesLazily(b, nss) == [k \in {} |-> 0]

\* Build, first loop: one record per namespace object.
RECURSIVE SeedNamespaces(_, _)
SeedNamespaces(b, nss) ==
    IF nss = << >>
    THEN [k \in {} |-> 0]
    ELSE LET n      == Len(nss)
             before == SeedNamespaces(b, SubSeq(nss, 1, n - 1))
             ns     == nss[n]
         IN  [k \in (DOMAIN before) \cup {ns.Name} |->
                 IF k = ns.Name
                 THEN NewNamespaceRecord(b.clusterID, ns.Name, cloneStringMap(ns.Labels),
                                         Classify(b.classifier, ns.Name, ns.Labels))
                 ELSE before[k]]

\* The NodeCostRecord Build creates for a node, inside a fresh nodeAggregate.
NewNodeAggregate(b, node) ==
    [record |->
        [ClusterID |-> b.clusterID, NodeName |-> node.Name,
         HourlyCost |-> Price(b.prices, detectInstanceType(node.Labels)),
         CPUUsagePercent |-> 0, MemoryUsagePercent |-> 0,
         CPUAllocatableMilli |-> node.AllocatableCPU,
         MemoryAllocatableBytes |-> node.AllocatableMemory,
         PodCount |-> 0, Status |-> nodeStatus(node.Conditions),
         IsUnderPressure |-> nodeUnderPressure(node.Conditions),
         InstanceType |-> detectInstanceType(node.Labels),
         Labels |-> cloneStringMap(node.Labels), Taints |-> formatTaints(node.Taints)],
     podCount |-> 0, cpuUsageMilli |-> 0, memoryUsageBytes |-> 0]

\* Build, second loop: one aggregate per node and the running total of node cost.
RECURSIVE SeedNodes(_, _)
SeedNodes(b, ns) ==
    IF ns = << >>
    THEN [records |-> [k \in {} |-> 0], totalNodeCost |-> 0]
    ELSE LET n      == Len(ns)
             before == SeedNodes(b, SubSeq(ns, 1, n - 1))
             agg    == NewNodeAggregate(b, ns[n])
         IN  [records |-> [k \in (DOMAIN before.records) \cup {ns[n].Name} |->
                              IF k = ns[n].Name THEN agg ELSE before.records[k]],
              totalNodeCost |-> before.totalNodeCost + agg.record.HourlyCost]

\* A plausible slip: the share is not capped.
CostShareUncapped(cpuReq, allocatableCPU, hourlyCost) ==
    (cpuReq * hourlyCost) \div allocatableCPU

\* share * nodeAgg.record.HourlyCost, with share = cpuReq / allocatableCPU capped at 1.
CostShare(cpuReq, allocatableCPU, hourlyCost) ==
    IF cpuReq > allocatableCPU
    THEN hourlyCost
    ELSE (cpuReq * hourlyCost) \div allocatableCPU

\* A plausible slip: the requests stand in only when the pod has no usage at all.
usageOrRequestTogether(podUsage, req) ==
    IF podUsage.CPUUsageMilli = 0 /\ podUsage.MemoryUsageBytes = 0
    THEN [cpu |-> req.cpu, mem |-> req.mem]
    ELSE [cpu |-> podUsage.CPUUsageMilli, mem |-> podUsage.MemoryUsageBytes]

\* cpuUsage and memUsage of Build's pod loop: the usage entry's values, each
\* replaced by the request when it is zero.
usageOrRequest(podUsage, req) ==
    [cpu |-> IF podUsage.CPUUsageMilli = 0 THEN req.cpu ELSE podUsage.CPUUsageMilli,
     mem |-> IF podUsage.MemoryUsageBytes = 0 THEN req.mem
             ELSE podUsage.MemoryUsageBytes]

\* The body of Build's pod loop for one pod that is not skipped, on the running
\* state acc = [ns, nodes, cpuReq, cpuUsage, memReq, memUsage].
AddPod(b, acc, pod, usageMap) ==
    LET set      == ensureNamespace(acc.ns, b.clusterID, pod.Namespace, b.classifier)
        req      == sumPodRequests(pod)
        podUsage == MapGet(usageMap, PodKey(pod.Namespace, pod.Name))
        cpuUsage == usageOrRequest(podUsage, req).cpu
        memUsage == usageOrRequest(podUsage, req).mem
        onNode   == pod.NodeName \in DOMAIN acc.nodes
        nodeAgg  == acc.nodes[pod.NodeName]
        cost     == IF /\ onNode
                       /\ nodeAgg.record.CPUAllocatableMilli > 0
                       /\ nodeAgg.record.HourlyCost > 0
                       /\ req.cpu > 0
                    THEN CostShare(req.cpu, nodeAgg.record.CPUAllocatableMilli,
                                   nodeAgg.record.HourlyCost)
                    ELSE 0
        old      == set[pod.Namespace]
        new      == [old EXCEPT !.PodCount = @ + 1,
                                !.CPURequestMilli = @ + req.cpu,
                                !.MemoryRequestBytes = @ + req.mem,
                                !.CPUUsageMilli = @ + cpuUsage,
                                !.MemoryUsageBytes = @ + memUsage,
                                !.HourlyCost = @ + cost]
    IN  [ns       |-> [set EXCEPT ![pod.Namespace] = new],
         nodes    |-> IF onNode
                      THEN [acc.nodes EXCEPT ![pod.NodeName] =
                               [@ EXCEPT !.podCount = @ + 1,
                                         !.cpuUsageMilli = @ + cpuUsage,
                                         !.memoryUsageBytes = @ + memUsage]]
                      ELSE acc.nodes,
         cpuReq   |-> acc.cpuReq + req.cpu,
         cpuUsage |-> acc.cpuUsage + cpuUsage,
         memReq   |-> acc.memReq + req.mem,
         memUsage |-> acc.memUsage + memUsage]

\* A plausible slip: a pod whose node has no record is passed over.
RECURSIVE PodPassDroppingUnknownNode(_, _, _, _)
PodPassDroppingUnknownNode(b, acc, ps, usageMap) ==
    IF ps = << >>
    THEN acc
    ELSE PodPassDroppingUnknownNode(b,
                 IF skipPod(Head(ps)) \/ Head(ps).NodeName \notin DOMAIN acc.nodes
                 THEN acc
                 ELSE AddPod(b, acc, Head(ps), usageMap),
                 Tail(ps), usageMap)

\* A plausible slip: what the pods of one node are charged together is capped at
\* the node's hourly cost (the clusters built here have one priced node with
\* allocatable CPU, so what has been charged so far was charged for that node).
RECURSIVE PodPassCappingNodeCost(_, _, _, _)
PodPassCappingNodeCost(b, acc, ps, usageMap) ==
    IF ps = << >>
    THEN acc
    ELSE LET pod   == Head(ps)
             next  == AddPod(b, acc, pod, usageMap)
             charged(a) ==
                 LET sum[S \in SUBSET DOMAIN a.ns] ==
                         IF S = { } THEN 0
                         ELSE LET n == CHOOSE n \in S : TRUE
                              IN  a.ns[n].HourlyCost + sum[S \ { n }]
                 IN  sum[DOMAIN a.ns]
             limit == IF pod.NodeName \in DOMAIN acc.nodes
                      THEN acc.nodes[pod.NodeName].record.HourlyCost
                      ELSE 0
             added == charged(next) - charged(acc)
             over  == charged(next) - limit
             back  == IF over <= 0 THEN 0 ELSE IF over < added THEN over ELSE added
         IN  PodPassCappingNodeCost(b,
                 IF skipPod(pod) THEN acc
                 ELSE [next EXCEPT !.ns[pod.Namespace].HourlyCost = @ - back],
                 Tail(ps), usageMap)

\* A plausible slip: the cluster totals are kept next to the node updates, so a
\* pod whose node has no record is left out of them.
RECURSIVE PodPassTotalsWithNode(_, _, _, _)
PodPassTotalsWithNode(b, acc, ps, usageMap) ==
    IF ps = << >>
    THEN acc
    ELSE LET pod  == Head(ps)
             next == AddPod(b, acc, pod, usageMap)
         IN  PodPassTotalsWithNode(b,
                 IF skipPod(pod) THEN acc
                 ELSE IF pod.NodeName \in DOMAIN acc.nodes THEN next
                 ELSE [next EXCEPT !.cpuReq = acc.cpuReq, !.cpuUsage = acc.cpuUsage,
                                   !.memReq = acc.memReq, !.memUsage = acc.memUsage],
                 Tail(ps), usageMap)

\* Build, third loop: the pods in list order.
RECURSIVE PodPass(_, _, _, _)
PodPass(b, acc, ps, usageMap) ==
    IF ps = << >>
    THEN acc
    ELSE PodPass(b,
                 IF skipPod(Head(ps)) THEN acc ELSE AddPod(b, acc, Head(ps), usageMap),
                 Tail(ps), usageMap)

\* The finishing loop of Build over nodeRecords: percentages and pod count.
FinishNode(agg) ==
    [agg.record EXCEPT
        !.CPUUsagePercent =
            IF agg.record.CPUAllocatableMilli > 0
            THEN clampPercent(PercentOf(agg.cpuUsageMilli, agg.record.CPUAllocatableMilli))
            ELSE @,
        !.MemoryUsagePercent =
            IF agg.record.MemoryAllocatableBytes > 0
            THEN clampPercent(PercentOf(agg.memoryUsageBytes,
                                        agg.record.MemoryAllocatableBytes))
            ELSE @,
        !.PodCount = agg.podCount]

\* The keys of a map as the list sort.Slice leaves them in (ascending).
RECURSIVE SortedKeys(_)
SortedKeys(keys) ==
    IF keys = {} THEN << >>
    ELSE LET least == CHOOSE k \in keys : \A o \in keys \ {k} : StrLess(k, o)
         IN  << least >> \o SortedKeys(keys \ {least})

\* Builder.Build
Build(b, nodeList, namespaceList, podList, usageMap, generatedAt) ==
    LET nsRecords == SeedNamespaces(b, namespaceList)
        seeded    == SeedNodes(b, nodeList)
        acc       == PodPass(b, [ns |-> nsRecords, nodes |-> seeded.records, cpuReq |-> 0,
                                 cpuUsage |-> 0, memReq |-> 0, memUsage |-> 0],
                             podList, usageMap)
        nsOrder   == SortedKeys(DOMAIN acc.ns)
        nodeOrder == SortedKeys(DOMAIN acc.nodes)
    IN  [Timestamp  |-> generatedAt,
         Namespaces |-> [i \in 1..Len(nsOrder) |-> acc.ns[nsOrder[i]]],
         Nodes      |-> [i \in 1..Len(nodeOrder) |-> FinishNode(acc.nodes[nodeOrder[i]])],
         Resources  |-> [ClusterID |-> b.clusterID,
                         CPUUsageMilliTotal |-> acc.cpuUsage,
                         CPURequestMilliTotal |-> acc.cpuReq,
                         MemoryUsageBytesTotal |-> acc.memUsage,
                         MemoryRequestBytesTotal |-> acc.memReq,
                         TotalNodeHourlyCost |-> seeded.totalNodeCost]]

(***************************************************************************)
(* internal/snapshot: Store (single slot).                                 *)
(***************************************************************************)
\* The zero Snapshot value.
ZeroSnapshot ==
    [Timestamp |-> 0, Namespaces |-> << >>, Nodes |-> << >>,
     Resources |-> [ClusterID |-> "", CPUUsageMilliTotal |-> 0, CPURequestMilliTotal |-> 0,
                    MemoryUsageBytesTotal |-> 0, MemoryRequestBytesTotal |-> 0,
                    TotalNodeHourlyCost |-> 0]]

\* NewStore: nothing held yet.
NewStore == [set |-> FALSE, snap |-> ZeroSnapshot]

\* Store.Update: replaces the held value.
Update(s, snapshot) == [set |-> TRUE, snap |-> snapshot]

\* Store.Latest: the held value and whether one has ever been set.
Latest(s) == [snapshot |-> s.snap, found |-> s.set]

(***************************************************************************)
(* The cluster the agent observes, and its configuration.                  *)
(***************************************************************************)
Node1 ==
    [Name |-> "node-1",
     Labels |-> [k \in {"node.kubernetes.io/instance-type"} |-> "m6a.large"],
     AllocatableCPU |-> 2000, AllocatableMemory |-> 4096,
     Conditions |-> << [Type |-> "Ready", Status |-> "True"] >>,
     Taints |-> << >>]

NamespaceDefault == [Name |-> "default", Labels |-> NoLabels]

PodA ==
    [isNil |-> FALSE, Namespace |-> "default", Name |-> "pod-a", NodeName |-> "node-1",
     Deleted |-> FALSE, Phase |-> "Running",
     Containers |-> << [cpu |-> 500, mem |-> 1024] >>,
     InitContainers |-> << >>, EphemeralContainers |-> << >>]

NodeObjects == { Node1 }

NamespaceObjects == { NamespaceDefault }

PodObjects == { PodA }

\* The configuration main hands to the builder.
ClassifierConfig ==
    [LabelKeys |-> << "clustercost.io/environment" >>,
     ProductionLabelValues |-> << "prod" >>,
     NonProdLabelValues |-> << >>,
     SystemLabelValues |-> << >>,
     ProductionNameContains |-> << "prod" >>,
     SystemNamespaces |-> << "kube-system" >>]

InstancePrices == << [k |-> "m6a.large", v |-> 1000] >>

DefaultNodeHourly == 2000

\* snapshot.NewBuilder(clusterID, classifier, priceLookup)
Builder ==
    [clusterID  |-> "cluster-1",
     classifier |-> NewEnvironmentClassifier(ClassifierConfig),
     prices     |-> NewNodePriceLookup(InstancePrices, DefaultNodeHourly)]

\* The orders in which a lister can return the objects of its store.
Orderings(S) ==
    { f \in [1..Cardinality(S) -> S] : \A i, j \in 1..Cardinality(S) : f[i] = f[j] => i = j }

\* What a lister's List returns: a list and no error, or an error.
ListResults(stored) ==
    { [list |-> l, err |-> NoError] : l \in Orderings(stored) }
        \cup { [list |-> << >>, err |-> "list failed"] }

\* What the metrics source answers to one List call.
MetricsResponses ==
    { [items |-> i, err |-> NoError] : i \in PodMetricsLists }
        \cup { [items |-> << >>, err |-> e] : e \in QueryErrors }

\* time.Now().UTC(): the readings of the wall clock the model distinguishes.
Times == { 1, 2 }

(***************************************************************************)
(* cmd/agent: runSnapshotLoop and buildOnce, one step of the goroutine per *)
(* operator.  The locals of buildOnce are dead outside one call and are    *)
(* cleared when it returns.                                                *)
(***************************************************************************)
locals == << nodes, namespaces, pods, usage, metricsErr >>

\* What the loop goroutine and its environment never touch.
aux == << synced, startErr, input, output, mu, heap, routines >>

shared == << podsClient, last, cacheNodes, cacheNamespaces, cachePods, store, ctxDone,
             tickerC >>

\* The first statement of the for loop: buildOnce, before any select.
LoopEntryWaitFirst == "select"

LoopEntry == "listNodes"

\* A plausible slip: a failed buildOnce ends the loop.
afterBuildOnceStoppingOnError(err) ==
    /\ retErr' = err
    /\ pc' = IF err # NoError THEN "returned" ELSE "select"
    /\ nodes' = << >>
    /\ namespaces' = << >>
    /\ pods' = << >>
    /\ usage' = NilMap
    /\ metricsErr' = NoError

\* buildOnce returns err to runSnapshotLoop, which logs it and goes on to the select.
afterBuildOnce(err) ==
    /\ retErr' = err
    /\ pc' = "select"
    /\ nodes' = << >>
    /\ namespaces' = << >>
    /\ pods' = << >>
    /\ usage' = NilMap
    /\ metricsErr' = NoError

\* nodes, err := cache.NodeLister().List(...); if err != nil { return err }
listNodesStep(r) ==
    /\ pc = "listNodes"
    /\ IF r.err # NoError
       THEN afterBuildOnce(r.err)
       ELSE /\ nodes' = r.list
            /\ pc' = "listNamespaces"
            /\ retErr' = NoError
            /\ UNCHANGED << namespaces, pods, usage, metricsErr >>
    /\ UNCHANGED shared

\* A plausible slip: the error of the namespace listing is dropped and the build goes
\* on with the (empty) list it got.
listNamespacesStepIgnoringError(r) ==
    /\ pc = "listNamespaces"
    /\ namespaces' = r.list
    /\ pc' = "listPods"
    /\ UNCHANGED << nodes, pods, usage, metricsErr, retErr >>
    /\ UNCHANGED shared

\* namespaces, err := cache.NamespaceLister().List(...); if err != nil { return err }
listNamespacesStep(r) ==
    /\ pc = "listNamespaces"
    /\ IF r.err # NoError
       THEN afterBuildOnce(r.err)
       ELSE /\ namespaces' = r.list
            /\ pc' = "listPods"
            /\ UNCHANGED << nodes, pods, usage, metricsErr, retErr >>
    /\ UNCHANGED shared

\* A plausible slip: the error of the pod listing is dropped and the build goes on.
listPodsStepIgnoringError(r) ==
    /\ pc = "listPods"
    /\ pods' = r.list
    /\ pc' = "collect"
    /\ UNCHANGED << nodes, namespaces, usage, metricsErr, retErr >>
    /\ UNCHANGED shared

\* pods, err := cache.PodLister().List(...); if err != nil { return err }
listPodsStep(r) ==
    /\ pc = "listPods"
    /\ IF r.err # NoError
       THEN afterBuildOnce(r.err)
       ELSE /\ pods' = r.list
            /\ pc' = "collect"
            /\ UNCHANGED << nodes, namespaces, usage, metricsErr, retErr >>
    /\ UNCHANGED shared

\* usage, metricsErr := metricsCollector.CollectPodMetrics(metricsCtx)
collectStep(resp) ==
    /\ pc = "collect"
    /\ LET r == CollectPodMetrics(podsClient, last, resp.items, resp.err)
       IN  /\ usage' = r.usage
           /\ metricsErr' = r.err
           /\ last' = r.last
    /\ pc' = "publish"
    /\ UNCHANGED << nodes, namespaces, pods, retErr >>
    /\ UNCHANGED << podsClient, cacheNodes, cacheNamespaces, cachePods, store, ctxDone,
                    tickerC >>

\* A plausible slip: a usage error aborts the iteration like a list error does.
publishStepAbortingOnMetricsErr(t) ==
    /\ pc = "publish"
    /\ IF metricsErr # NoError
       THEN store' = store
       ELSE store' = Update(store, Build(Builder, nodes, namespaces, pods, usage, t))
    /\ afterBuildOnce(metricsErr)
    /\ UNCHANGED << podsClient, last, cacheNodes, cacheNamespaces, cachePods, ctxDone,
                    tickerC >>

\* if metricsErr != nil { logger.Warn(...) }
\* store.Update(builder.Build(nodes, namespaces, pods, usage, time.Now().UTC())); return nil
publishStep(t) ==
    /\ pc = "publish"
    /\ store' = Update(store, Build(Builder, nodes, namespaces, pods, usage, t))
    /\ afterBuildOnce(NoError)
    /\ UNCHANGED << podsClient, last, cacheNodes, cacheNamespaces, cachePods, ctxDone,
                    tickerC >>

\* select: case <-ctx.Done(): return
selectDoneStep ==
    /\ pc = "select"
    /\ ctxDone
    /\ pc' = "returned"
    /\ UNCHANGED << retErr, locals, shared >>

\* select: case <-ticker.C: (the next iteration of the for loop).  When both cases
\* are ready Go picks one of them at random, so this step does not look at ctxDone.
selectTickStep ==
    /\ pc = "select"
    /\ tickerC
    /\ tickerC' = FALSE
    /\ pc' = "listNodes"
    /\ UNCHANGED << retErr, locals >>
    /\ UNCHANGED << podsClient, last, cacheNodes, cacheNamespaces, cachePods, store,
                    ctxDone >>

(***************************************************************************)
(* The history record: what an observer of the run has seen so far.        *)
(*   ran         some call of buildOnce has returned                       *)
(*   tickTaken   the loop has received from ticker.C                       *)
(*   listFailed  a list call of the current (or last) iteration failed     *)
(*   okEver      some query of the metrics source has succeeded            *)
(*   lastOk      the map computed from the most recent successful query    *)
(*   failedPrev  the query before the one of the current iteration failed  *)
(*   failedNow   the query of the current iteration, if made, failed       *)
(*   queried     the metrics source has been queried                       *)
(*   queryErr    the error of the query of the current iteration           *)
(*   good        the snapshot of the most recent iteration whose lists all *)
(*               succeeded and which ran to its end                        *)
(***************************************************************************)
InitHist ==
    [ran |-> FALSE, tickTaken |-> FALSE, listFailed |-> FALSE, okEver |-> FALSE, lastOk |-> NilMap,
     failedPrev |-> FALSE, failedNow |-> FALSE, queried |-> FALSE, queryErr |-> NoError,
     good |-> [set |-> FALSE, snap |-> ZeroSnapshot], noSource |-> FALSE]

Init ==
    /\ podsClient \in BOOLEAN
    /\ last = NilMap
    /\ cacheNodes = NodeObjects
    /\ cacheNamespaces = NamespaceObjects
    /\ cachePods = PodObjects
    /\ store = NewStore
    /\ ctxDone = FALSE
    /\ tickerC = FALSE
    /\ pc = LoopEntry
    /\ nodes = << >>
    /\ namespaces = << >>
    /\ pods = << >>
    /\ usage = NilMap
    /\ metricsErr = NoError
    /\ retErr = NoError
    /\ hist = InitHist
    /\ synced = Kinds
    /\ startErr = NoError
    /\ NoRoutines
    /\ input = NoCall
    /\ output = NoCall

ListNodes ==
    \E r \in ListResults(cacheNodes) :
        /\ listNodesStep(r)
        /\ hist' = [hist EXCEPT !.listFailed = (r.err # NoError),
                                !.ran = @ \/ (r.err # NoError)]
        /\ UNCHANGED aux

ListNamespaces ==
    \E r \in ListResults(cacheNamespaces) :
        /\ listNamespacesStep(r)
        /\ hist' = [hist EXCEPT !.listFailed = @ \/ (r.err # NoError),
                                !.ran = @ \/ (r.err # NoError)]
        /\ UNCHANGED aux

ListPods ==
    \E r \in ListResults(cachePods) :
        /\ listPodsStep(r)
        /\ hist' = [hist EXCEPT !.listFailed = @ \/ (r.err # NoError),
                                !.ran = @ \/ (r.err # NoError)]
        /\ UNCHANGED aux

Collect ==
    \E resp \in MetricsResponses :
        /\ collectStep(resp)
        /\ LET asked == CollectPodMetrics(podsClient, last, resp.items, resp.err).queried
           IN  hist' =
                 IF ~podsClient
                 THEN [hist EXCEPT !.queried = @ \/ asked]
                 ELSE IF resp.err = NoError
                 THEN [hist EXCEPT !.okEver = TRUE,
                                   !.lastOk = MakeMap(PodUsageEntries(resp.items)),
                                   !.failedPrev = hist.failedNow, !.failedNow = FALSE,
                                   !.queried = @ \/ asked, !.queryErr = NoError]
                 ELSE [hist EXCEPT !.failedPrev = hist.failedNow, !.failedNow = TRUE,
                                   !.queried = @ \/ asked, !.queryErr = resp.err]
        /\ UNCHANGED aux

Publish ==
    \E t \in Times :
        /\ publishStep(t)
        /\ hist' = [hist EXCEPT
                      !.ran = TRUE,
                      !.queryErr = NoError,
                      !.good = IF hist.listFailed
                               THEN @
                               ELSE [set |-> TRUE,
                                     snap |-> Build(Builder, nodes, namespaces, pods,
                                                    usage, t)]]
        /\ UNCHANGED aux

SelectDone ==
    /\ selectDoneStep
    /\ hist' = hist
    /\ UNCHANGED aux

SelectTick ==
    /\ selectTickStep
    /\ hist' = [hist EXCEPT !.tickTaken = TRUE, !.listFailed = FALSE]
    /\ UNCHANGED aux

\* The process receives SIGTERM or SIGINT: signal.NotifyContext cancels ctx.
Cancel ==
    /\ ~ctxDone
    /\ ctxDone' = TRUE
    /\ UNCHANGED << podsClient, last, cacheNodes, cacheNamespaces, cachePods, store,
                    tickerC, pc, locals, retErr, hist >>
    /\ UNCHANGED aux

\* The ticker delivers a tick; with a tick still undelivered the new one is dropped.
\* The ticker exists from the first statement of runSnapshotLoop until the deferred
\* ticker.Stop() of its return.
TickerFire ==
    /\ pc \notin { "cacheStart", "started", "exited", "returned" }
    /\ ~tickerC
    /\ tickerC' = TRUE
    /\ UNCHANGED << podsClient, last, cacheNodes, cacheNamespaces, cachePods, store,
                    ctxDone, pc, locals, retErr, hist >>
    /\ UNCHANGED aux

\* The informers apply a watch event: an object appears in or leaves a store.
WatchNode ==
    \E o \in NodeObjects :
        /\ cacheNodes' = IF o \in cacheNodes THEN cacheNodes \ {o} ELSE cacheNodes \cup {o}
        /\ UNCHANGED << podsClient, last, cacheNamespaces, cachePods, store, ctxDone,
                        tickerC, pc, locals, retErr, hist >>
        /\ UNCHANGED aux

WatchPod ==
    \E o \in PodObjects :
        /\ cachePods' = IF o \in cachePods THEN cachePods \ {o} ELSE cachePods \cup {o}
        /\ UNCHANGED << podsClient, last, cacheNodes, cacheNamespaces, store, ctxDone,
                        tickerC, pc, locals, retErr, hist >>
        /\ UNCHANGED aux

Next ==
    \/ ListNodes
    \/ ListNamespaces
    \/ ListPods
    \/ Collect
    \/ Publish
    \/ SelectDone
    \/ SelectTick
    \/ Cancel
    \/ TickerFire
    \/ WatchNode
    \/ WatchPod

Spec == Init /\ [][Next]_vars

\* The scheduling the Go runtime gives the select of runSnapshotLoop: the ticker
\* keeps delivering ticks, and a select with a ready case proceeds.
FairSpec ==
    /\ Spec
    /\ WF_vars(TickerFire)
    /\ WF_vars(SelectTick)
    /\ WF_vars(SelectDone)

(***************************************************************************)
(* Properties.  In a state with pc = "publish" the call of                 *)
(* CollectPodMetrics of the current iteration has just returned: usage and *)
(* metricsErr are its results.                                             *)
(***************************************************************************)

\* C1: degraded-mode continuity.  Once some query has succeeded, a call whose query
\* fails (the first failure or any later consecutive one) returns a non-nil error
\* together with exactly the map the most recent successful call returned.
C1_DegradedModeContinuity ==
    (pc = "publish" /\ podsClient /\ hist.failedNow /\ hist.okEver)
        => (metricsErr # NoError /\ ~usage.isNil /\ usage = hist.lastOk)

\* Reached: the second consecutive failure after a success returns the stale entries.
C1_Witness ==
    /\ pc = "publish"
    /\ hist.okEver /\ hist.failedPrev /\ hist.failedNow
    /\ metricsErr # NoError
    /\ MapLen(usage) = 2

\* C2: the cache is nil while no query has succeeded and otherwise is exactly the map
\* computed from the most recent successful query (replaced, not merged); a failing
\* call leaves it as it was; a successful call returns that fresh map and no error.
C2_CacheIsLastSuccess ==
    /\ last = (IF hist.okEver THEN hist.lastOk ELSE NilMap)
    /\ (pc = "publish" /\ podsClient /\ ~hist.failedNow)
           => (metricsErr = NoError /\ ~usage.isNil /\ usage = hist.lastOk)

\* Reached: a successful call right after a failed one returned and cached one entry.
C2_Witness ==
    /\ pc = "publish"
    /\ podsClient /\ hist.failedPrev /\ ~hist.failedNow
    /\ metricsErr = NoError
    /\ MapLen(usage) = 1
    /\ last = usage

\* C3: a failed query on a collector on which no call has ever succeeded returns the
\* nil map and the query error wrapped as "list pod metrics: <error>".
C3_FirstFailureNoData ==
    (pc = "publish" /\ podsClient /\ hist.failedNow /\ ~hist.okEver)
        => (/\ usage.isNil
            /\ hist.queryErr \in QueryErrors
            /\ metricsErr = WrapListErr(hist.queryErr))

\* Reached: the deadline error of a first query comes back wrapped, with no map.
C3_Witness ==
    /\ pc = "publish"
    /\ podsClient /\ hist.failedNow /\ ~hist.okEver
    /\ usage.isNil
    /\ metricsErr = "list pod metrics: context deadline exceeded"

\* C4: with no usage source configured every call returns the configuration error
\* and the nil map, the source is never queried and the cache stays nil.
C4_NotConfigured ==
    (~podsClient)
        => (/\ last = NilMap
            /\ ~hist.queried
            /\ (pc = "publish" => (usage.isNil /\ metricsErr = ErrNotConfigured)))

\* Reached: a call in a later iteration of an unconfigured collector has returned.
C4_Witness ==
    /\ ~podsClient
    /\ pc = "publish"
    /\ hist.tickTaken
    /\ metricsErr = ErrNotConfigured

\* C5: Latest reports found = FALSE until an iteration has run to its end with all
\* lists read, and from then on the snapshot of the most recent such iteration; an
\* iteration that fails changes nothing, and found never goes back to FALSE.
C5_StoreHoldsLastGoodSnapshot ==
    /\ [](/\ Latest(store).found = hist.good.set
          /\ Latest(store).found => Latest(store).snapshot = hist.good.snap)
    /\ [][Latest(store).found => Latest(store)'.found]_vars

\* Reached: an iteration has failed while the store holds an earlier snapshot.
C5_Witness ==
    /\ pc = "select"
    /\ retErr # NoError
    /\ hist.listFailed
    /\ Latest(store).found
    /\ Latest(store).snapshot.Timestamp = 2

\* C6: from the failing list call on, the iteration does nothing more: it neither
\* reaches the usage collection nor the build, the store keeps its value and the
\* collector is not called (its cache and its source are untouched).
C6_ListFailureAbandonsIteration ==
    [][hist'.listFailed =>
          (/\ pc' \in { "select", "returned" }
           /\ store' = store
           /\ last' = last
           /\ hist'.queried = hist.queried)]_vars

\* Reached: a list call has failed in an iteration that began with a snapshot in
\* the store and a cache in the collector.
C6_Witness ==
    /\ pc = "select"
    /\ hist.listFailed
    /\ retErr = "list failed"
    /\ Latest(store).found
    /\ ~last.isNil

\* C7: when the lists have succeeded and CollectPodMetrics returned an error, the
\* iteration still builds from the returned map (the stale cache or the nil map) and
\* publishes the result, buildOnce returns nil and the loop goes on to its select.
C7_UsageErrorDoesNotAbort ==
    [][(pc = "publish" /\ metricsErr # NoError /\ pc' # "publish") =>
          (/\ usage = last
           /\ \E t \in Times :
                  store' = Update(store, Build(Builder, nodes, namespaces, pods, usage, t))
           /\ Latest(store)'.found
           /\ retErr' = NoError
           /\ pc' = "select")]_vars

\* Reached: an iteration whose query failed has published from the stale cache.
C7_Witness ==
    /\ pc = "select"
    /\ hist.ran /\ ~hist.listFailed
    /\ hist.failedNow /\ hist.okEver
    /\ retErr = NoError
    /\ Latest(store).found

\* C8: the loop is at its select only after a call of buildOnce has returned, and
\* when the lists of the first call succeeded the store holds a snapshot although
\* the loop has not yet received a tick.
C8_FirstIterationBeforeFirstWait ==
    /\ (pc \in { "select", "returned" } \/ hist.tickTaken) => hist.ran
    /\ (hist.ran /\ ~hist.tickTaken /\ ~hist.listFailed) => Latest(store).found

\* Reached: a snapshot is in the store before the ticker has delivered any tick.
C8_Witness ==
    /\ pc = "select"
    /\ ~hist.tickTaken
    /\ ~tickerC
    /\ Latest(store).found

\* C9: the loop returns only on cancellation; after an iteration, failed or not, its
\* only other step is the next iteration, which it does reach once the ticker fires.
C9_FailureDoesNotStopLoop ==
    /\ [][(pc' = "returned" /\ pc # "returned") => (pc = "select" /\ ctxDone)]_vars
    /\ [][(pc = "select" /\ pc' # "select" /\ ~ctxDone) => pc' = "listNodes"]_vars
    /\ (pc = "select" /\ ~ctxDone) ~> (pc = "listNodes" \/ ctxDone)

\* Reached: after a failed iteration, with the context live, the next one has begun.
C9_Witness ==
    /\ pc = "listNodes"
    /\ retErr # NoError
    /\ ~ctxDone

\* C10: once the context is cancelled no new iteration is started, even with a tick
\* pending at the same time.
C10_NoIterationAfterCancel ==
    [][(ctxDone /\ pc = "select") => pc' # "listNodes"]_vars

(***************************************************************************)
(* Startup: ClusterCache.Start (internal/kube/cache.go) as main calls it.  *)
(* The informers are client-go's: factory.Start(stopCh) runs them until    *)
(* stopCh is closed, and cache.WaitForCacheSync(stopCh, synced...) blocks  *)
(* until every HasSynced reports true (it returns true) or stopCh is       *)
(* closed (it returns false).                                              *)
(***************************************************************************)
ErrStartTimedOut == "timed out waiting for informer caches to sync"

\* The values cache.WaitForCacheSync can return now; none while it still blocks.
\* With every informer synced and stopCh closed its poll can observe either first.
WaitForCacheSync(stopClosed, hasSynced) ==
    (IF hasSynced = Kinds THEN { TRUE } ELSE { })
        \cup (IF stopClosed THEN { FALSE } ELSE { })

\* A plausible slip: the result of WaitForCacheSync is dropped.
StartIgnoringSyncResult(stopClosed, hasSynced) ==
    { NoError : ok \in WaitForCacheSync(stopClosed, hasSynced) }

\* A plausible slip: the wait is given a channel that never closes.
StartNeverStopped(stopClosed, hasSynced) ==
    { IF ok THEN NoError ELSE ErrStartTimedOut :
        ok \in WaitForCacheSync(FALSE, hasSynced) }

\* ClusterCache.Start: the errors it can return now (nil is NoError).
Start(stopClosed, hasSynced) ==
    { IF ok THEN NoError ELSE ErrStartTimedOut :
        ok \in WaitForCacheSync(stopClosed, hasSynced) }

\* A plausible slip: main logs the error of Start and goes on.
afterStartIgnoringError(err) == "started"

\* main after cache.Start: os.Exit(1) on an error, otherwise on to the collector.
afterStart(err) == IF err # NoError THEN "exited" ELSE "started"

\* main has built the ClusterCache and is about to call Start; the stores are empty,
\* there is no collector yet and the process context may already be cancelled.
MainInit ==
    /\ podsClient = FALSE
    /\ last = NilMap
    /\ cacheNodes = { }
    /\ cacheNamespaces = { }
    /\ cachePods = { }
    /\ store = NewStore
    /\ ctxDone \in BOOLEAN
    /\ tickerC = FALSE
    /\ pc = "cacheStart"
    /\ nodes = << >>
    /\ namespaces = << >>
    /\ pods = << >>
    /\ usage = NilMap
    /\ metricsErr = NoError
    /\ retErr = NoError
    /\ hist = InitHist
    /\ synced = { }
    /\ startErr = NoError
    /\ NoRoutines
    /\ input = NoCall
    /\ output = NoCall

\* An informer started by factory.Start has received its initial list: its store
\* holds the listed objects and HasSynced turns true.  Informers stop with stopCh.
InformerSynced ==
    \E k \in Kinds \ synced :
        /\ pc # "exited"
        /\ ~ctxDone
        /\ synced' = synced \cup { k }
        /\ cacheNodes' = IF k = "nodes" THEN NodeObjects ELSE cacheNodes
        /\ cacheNamespaces' = IF k = "namespaces" THEN NamespaceObjects ELSE cacheNamespaces
        /\ cachePods' = IF k = "pods" THEN PodObjects ELSE cachePods
        /\ UNCHANGED << podsClient, last, store, ctxDone, tickerC, pc, locals, retErr,
                        hist, startErr, input, output, mu, heap, routines >>

\* cache.Start returns to main.
StartReturn ==
    \E err \in Start(ctxDone, synced) :
        /\ pc = "cacheStart"
        /\ startErr' = err
        /\ pc' = afterStart(err)
        /\ UNCHANGED << podsClient, last, cacheNodes, cacheNamespaces, cachePods, store,
                        ctxDone, tickerC, locals, retErr, hist, synced, input, output,
                        mu, heap, routines >>

StartNext ==
    \/ InformerSynced
    \/ StartReturn
    \/ Cancel
    \/ WatchNode
    \/ WatchPod

StartSpec == MainInit /\ [][StartNext]_vars

\* A call that can return does return: the poll of WaitForCacheSync keeps running.
FairStartSpec ==
    /\ StartSpec
    /\ WF_vars(StartReturn)

\* C11: Start returns success only with all three kinds synced; a return with fewer
\* than three kinds synced (the context was cancelled first) carries the
\* "timed out" error, so a partially synced cache is never reported as started.
C11_StartSuccessMeansAllSynced ==
    /\ [](pc = "started" => (startErr = NoError /\ synced = Kinds))
    /\ [][ (pc = "cacheStart" /\ pc' # "cacheStart" /\ synced # Kinds)
             => (ctxDone /\ startErr' = ErrStartTimedOut /\ pc' = "exited") ]_vars

\* Start has returned the error after a cancellation with two kinds synced.
C11_Witness ==
    /\ pc = "exited"
    /\ startErr = ErrStartTimedOut
    /\ Cardinality(synced) = 2

\* C12: Start terminates: once the context is cancelled or all three kinds are
\* synced the call returns; it returns in no other state; and with a context
\* cancelled before the call it returns the error with no kind synced.
C12_StartTerminates ==
    /\ ((pc = "cacheStart" /\ (ctxDone \/ synced = Kinds)) ~> (pc # "cacheStart"))
    /\ [][ (pc = "cacheStart" /\ pc' # "cacheStart")
             => (ctxDone \/ synced = Kinds) ]_vars
    /\ [][ (pc = "cacheStart" /\ pc' # "cacheStart" /\ synced = { })
             => (startErr' = ErrStartTimedOut /\ synced' = { }) ]_vars

\* Start has returned the error for a context cancelled before any kind synced.
C12_Witness ==
    /\ pc = "exited"
    /\ startErr = ErrStartTimedOut
    /\ synced = { }
    /\ ctxDone

(***************************************************************************)
(* main from the return of cache.Start to the start of the loop goroutine. *)
(***************************************************************************)
\* NewMetricsCollector: whether the collector it returns has a lister (c.pods # nil).
\* It has no error result.
NewMetricsCollector(clientIsNil, metricsIsNil) == (~clientIsNil) /\ (~metricsIsNil)

\* A plausible variant: main refuses to run without a usage source.
launchStepRequiringUsageSource(metricsIsNil) ==
    /\ podsClient' = NewMetricsCollector(FALSE, metricsIsNil)
    /\ pc' = IF NewMetricsCollector(FALSE, metricsIsNil) THEN LoopEntry ELSE "exited"

\* main builds the collector from its (non-nil) kube client, then the classifier, the
\* price lookup, the builder and the store, and starts runSnapshotLoop.
launchStep(metricsIsNil) ==
    /\ podsClient' = NewMetricsCollector(FALSE, metricsIsNil)
    /\ pc' = LoopEntry

LaunchLoop ==
    \E metricsIsNil \in BOOLEAN :
        /\ pc = "started"
        /\ launchStep(metricsIsNil)
        /\ hist' = [hist EXCEPT !.noSource = metricsIsNil]
        /\ UNCHANGED << last, cacheNodes, cacheNamespaces, cachePods, store, ctxDone,
                        tickerC, locals, retErr, aux >>

MainNext ==
    \/ InformerSynced
    \/ StartReturn
    \/ LaunchLoop
    \/ Next

MainSpec == MainInit /\ [][MainNext]_vars

process == << podsClient, last, cacheNodes, cacheNamespaces, cachePods, store, ctxDone,
              tickerC, pc, nodes, namespaces, pods, usage, metricsErr, retErr, hist,
              synced, startErr, mu, heap, routines >>

NoProcess ==
    /\ podsClient = FALSE
    /\ last = NilMap
    /\ cacheNodes = { }
    /\ cacheNamespaces = { }
    /\ cachePods = { }
    /\ store = NewStore
    /\ ctxDone = FALSE
    /\ tickerC = FALSE
    /\ pc = "call"
    /\ nodes = << >>
    /\ namespaces = << >>
    /\ pods = << >>
    /\ usage = NilMap
    /\ metricsErr = NoError
    /\ retErr = NoError
    /\ hist = InitHist
    /\ synced = { }
    /\ startErr = NoError
    /\ NoRoutines

\* The value a call returned.
Returned(fn, value) == [fn |-> fn, value |-> value]

\* All maps from a subset of keys to values.
MapsOver(keys, values) == UNION { [ks -> values] : ks \in SUBSET keys }

(***************************************************************************)
(* EnvironmentClassifier.Classify.                                         *)
(***************************************************************************)
\* A configuration with several label keys (an empty one among them), values in
\* mixed case and a value listed for two environments.
ClassifierConfigTiers ==
    [LabelKeys |-> << "", "env", "tier" >>,
     ProductionLabelValues |-> << "Live", "edge" >>,
     NonProdLabelValues |-> << "dev", "edge" >>,
     SystemLabelValues |-> << "infra" >>,
     ProductionNameContains |-> << "PRD", "" >>,
     SystemNamespaces |-> << "Kube-System", "sandbox", "prd-API" >>]

\* The zero ClassifierConfig: NewEnvironmentClassifier applies its defaults.
ClassifierConfigZero ==
    [LabelKeys |-> << >>,
     ProductionLabelValues |-> << >>,
     NonProdLabelValues |-> << >>,
     SystemLabelValues |-> << >>,
     ProductionNameContains |-> << >>,
     SystemNamespaces |-> << >>]

ClassifierConfigs == { ClassifierConfig, ClassifierConfigTiers, ClassifierConfigZero }

NamespaceNames == { "payments-prod", "PRD-api", "kube-system", "sandbox", "" }

\* Label keys a namespace can carry (Kubernetes admits no empty label key).
NamespaceLabelKeys == { "clustercost.io/environment", "env", "tier" }

NamespaceLabelValues == { "", "prod", "LIVE", "edge", "qa" }

ClassifyCalls ==
    { [fn |-> "Classify", cfg |-> cfg, name |-> name, labels |-> labels] :
        cfg \in ClassifierConfigs, name \in NamespaceNames,
        labels \in MapsOver(NamespaceLabelKeys, NamespaceLabelValues) }

ClassifyInit ==
    /\ NoProcess
    /\ input \in ClassifyCalls
    /\ output = NoCall

ClassifyCall ==
    /\ input.fn = "Classify"
    /\ output = NoCall
    /\ output' = Returned("Classify",
                          Classify(NewEnvironmentClassifier(input.cfg), input.name,
                                   input.labels))
    /\ UNCHANGED << process, input >>

ClassifySpec == ClassifyInit /\ [][ClassifyCall]_vars

\* The label keys Classify goes through for a configuration, in order.
KeysInOrder(cfg) ==
    IF cfg.LabelKeys = << >> THEN << "clustercost.io/environment" >> ELSE cfg.LabelKeys

\* The positions of the configured keys the label map carries with a non-empty value.
CarriedKeys(cfg, labels) ==
    { i \in 1..Len(KeysInOrder(cfg)) :
        /\ KeysInOrder(cfg)[i] \in DOMAIN labels
        /\ labels[KeysInOrder(cfg)[i]] # "" }

\* Whether the lower-cased value is one of the lower-cased values of the list.
Listed(values, v) == \E i \in 1..Len(values) : ToLower(values[i]) = ToLower(v)

\* The environment a recognized label value maps to: of the three lists the last
\* one that holds it.
MappedEnvironment(cfg, v) ==
    IF Listed(cfg.SystemLabelValues, v) THEN "system"
    ELSE IF Listed(cfg.NonProdLabelValues, v) THEN "nonprod"
    ELSE IF Listed(cfg.ProductionLabelValues, v) THEN "production"
    ELSE "unknown"

\* C14: in Classify the labels come first: the first configured key the namespace
\* carries with a non-empty value decides alone, giving the environment its
\* lower-cased value maps to and "unknown" when it maps to none, whatever the
\* name; absent and empty-valued keys are skipped; and without such a key the
\* result is never "unknown".
C14_LabelsPrecedeNames ==
    output.fn = "Classify" =>
        LET carried == CarriedKeys(input.cfg, input.labels)
            first   == CHOOSE i \in carried : \A j \in carried : i <= j
        IN  IF carried # { }
            THEN output.value =
                   MappedEnvironment(input.cfg, input.labels[KeysInOrder(input.cfg)[first]])
            ELSE output.value \in { "production", "system", "nonprod" }

\* "unknown" for a namespace whose name holds "prod": its first carried key has an
\* unrecognized value, after a key with an empty value.
C14_Witness ==
    /\ output.fn = "Classify"
    /\ output.value = "unknown"
    /\ input.name = "payments-prod"
    /\ input.cfg = ClassifierConfigTiers
    /\ "env" \in DOMAIN input.labels
    /\ input.labels["env"] = ""
    /\ "tier" \in DOMAIN input.labels
    /\ input.labels["tier"] = "qa"

(***************************************************************************)
(* NodePriceLookup, built as main builds it: from the pricing section of a *)
(* configuration that config.Load has let through.                         *)
(***************************************************************************)
ErrPricingNegative == "pricing values must be non-negative"

ErrDefaultNegative == "default node hourly price must be non-negative"

\* A plausible slip: the default node price is not validated.
checkPricingWithoutDefault(pricing) ==
    IF pricing.CPUCoreHourPriceUSD < 0 \/ pricing.MemoryGiBHourPriceUSD < 0
    THEN ErrPricingNegative
    ELSE NoError

\* The validation of the pricing section at the end of config.Load: the error Load
\* returns for it (NoError when Load returns the configuration).
checkPricing(pricing) ==
    IF pricing.CPUCoreHourPriceUSD < 0 \/ pricing.MemoryGiBHourPriceUSD < 0
    THEN ErrPricingNegative
    ELSE IF pricing.DefaultNodeHourlyUSD < 0
    THEN ErrDefaultNegative
    ELSE NoError

\* Configured instance types and prices (1/10000 USD), valid and not.
PriceKeys == { "m6a.large", "M6A.Large", "" }

PriceValues == { -500, 1000, 3000 }

\* The orders in which a range loop can visit a map: each a sequence of entries.
MapOrders(m) ==
    { [i \in DOMAIN o |-> [k |-> o[i], v |-> m[o[i]]]] : o \in Orderings(DOMAIN m) }

PriceEntryLists == UNION { MapOrders(m) : m \in MapsOver(PriceKeys, PriceValues) }

PricingConfigs ==
    { [CPUCoreHourPriceUSD |-> 460, MemoryGiBHourPriceUSD |-> 0,
       DefaultNodeHourlyUSD |-> d] : d \in { -500, 0, DefaultNodeHourly } }
        \cup { [CPUCoreHourPriceUSD |-> -460, MemoryGiBHourPriceUSD |-> 0,
                DefaultNodeHourlyUSD |-> DefaultNodeHourly] }

InstanceTypes == { "m6a.large", "M6A.LARGE", "c5.xlarge", "" }

PriceCalls ==
    { [fn |-> "Price", pricing |-> pricing, prices |-> prices,
       instanceType |-> x, other |-> y] :
        pricing \in PricingConfigs, prices \in PriceEntryLists,
        x \in InstanceTypes, y \in InstanceTypes }

PriceInit ==
    /\ NoProcess
    /\ input \in PriceCalls
    /\ output = NoCall

\* Load ends with the validation; main builds the lookup from what Load returned and
\* the lookup prices two instance types.
PriceCall ==
    /\ input.fn = "Price"
    /\ output = NoCall
    /\ output' =
         IF checkPricing(input.pricing) # NoError
         THEN Returned("Load", checkPricing(input.pricing))
         ELSE LET n == NewNodePriceLookup(input.prices, input.pricing.DefaultNodeHourlyUSD)
              IN  Returned("Price", [price |-> Price(n, input.instanceType),
                                     other |-> Price(n, input.other)])
    /\ UNCHANGED << process, input >>

PriceSpec == PriceInit /\ [][PriceCall]_vars

\* The positions of the retained entries (non-empty key, price not negative) whose
\* key is the instance type up to letter case.
MatchingEntries(prices, instanceType) ==
    { i \in 1..Len(prices) :
        /\ prices[i].k # ""
        /\ prices[i].v >= 0
        /\ ToLower(prices[i].k) = ToLower(instanceType) }

\* C15: Price ignores the letter case of the instance type: two types that differ
\* only in case get the same price; a type whose lower-cased form is a retained
\* key gets the price retained for that key (the one the construction wrote
\* last); an unmatched or empty type gets the default price.
C15_PriceCaseInsensitive ==
    output.fn = "Price" =>
        LET matching == MatchingEntries(input.prices, input.instanceType)
            lastOne  == CHOOSE i \in matching : \A j \in matching : j <= i
        IN  /\ ToLower(input.instanceType) = ToLower(input.other)
                => output.value.price = output.value.other
            /\ IF matching # { }
               THEN output.value.price = input.prices[lastOne].v
               ELSE output.value.price = input.pricing.DefaultNodeHourlyUSD
            /\ input.instanceType = ""
                => output.value.price = input.pricing.DefaultNodeHourlyUSD

\* An upper-case type has got the price configured under a mixed-case key, and so
\* has its lower-case form.
C15_Witness ==
    /\ output.fn = "Price"
    /\ input.instanceType = "M6A.LARGE"
    /\ input.other = "m6a.large"
    /\ input.prices = << [k |-> "M6A.Large", v |-> 3000] >>
    /\ output.value.price = 3000
    /\ output.value.other = 3000

\* C16: no price the lookup returns is negative: a negative entry of the price map
\* is dropped at construction, and the default price is not negative because Load
\* returns no configuration with a negative one.
C16_PriceNeverNegative ==
    output.fn = "Price" => (output.value.price >= 0 /\ output.value.other >= 0)

\* The price map's entry for the type is negative and the lookup has returned the
\* default price instead.
C16_Witness ==
    /\ output.fn = "Price"
    /\ input.instanceType = "m6a.large"
    /\ input.prices = << [k |-> "m6a.large", v |-> -500] >>
    /\ input.pricing.DefaultNodeHourlyUSD = DefaultNodeHourly
    /\ output.value.price = DefaultNodeHourly

(***************************************************************************)
(* Builder.Build on lists of its own: the builder of main, nodes with and  *)
(* without allocatable CPU, declared and undeclared namespaces, pods that  *)
(* are aggregated and pods that are skipped.                               *)
(***************************************************************************)
\* A node that reports no allocatable resources and no instance type.
NodeZero ==
    [Name |-> "node-0", Labels |-> NoLabels, AllocatableCPU |-> 0,
     AllocatableMemory |-> 0, Conditions |-> << >>, Taints |-> << >>]

NamespaceKubeSystem ==
    [Name |-> "kube-system", Labels |-> [k \in {"clustercost.io/environment"} |-> "prod"]]

NewPod(namespace, name, nodeName, deleted, phase, cpu, mem) ==
    [isNil |-> FALSE, Namespace |-> namespace, Name |-> name, NodeName |-> nodeName,
     Deleted |-> deleted, Phase |-> phase,
     Containers |-> << [cpu |-> cpu, mem |-> mem] >>,
     InitContainers |-> << >>, EphemeralContainers |-> << >>]

\* Requests the node's whole allocatable CPU, from a namespace that is not declared.
PodFull == NewPod("payments-prod", "pod-full", "node-1", FALSE, "Running", 2000, 2048)

\* Requests more CPU than the node has, over its three container lists.
PodBig ==
    [isNil |-> FALSE, Namespace |-> "default", Name |-> "pod-big", NodeName |-> "node-1",
     Deleted |-> FALSE, Phase |-> "Pending",
     Containers |-> << [cpu |-> 1500, mem |-> 512] >>,
     InitContainers |-> << [cpu |-> 500, mem |-> 0] >>,
     EphemeralContainers |-> << [cpu |-> 1000, mem |-> 256] >>]

PodOnNodeZero == NewPod("default", "pod-z", "node-0", FALSE, "Running", 250, 512)

\* Bound to a node that is not in the node list.
PodLost == NewPod("default", "pod-lost", "node-x", FALSE, "Running", 250, 256)

\* The nil *corev1.Pod.
PodNil ==
    [isNil |-> TRUE, Namespace |-> "", Name |-> "", NodeName |-> "", Deleted |-> FALSE,
     Phase |-> "", Containers |-> << >>, InitContainers |-> << >>,
     EphemeralContainers |-> << >>]

PodUnbound == NewPod("ghost", "pod-u", "", FALSE, "Pending", 100, 128)

PodDeleted == NewPod("ghost", "pod-d", "node-1", TRUE, "Running", 100, 128)

PodSucceeded == NewPod("ghost", "pod-s", "node-1", FALSE, "Succeeded", 100, 128)

PodFailed == NewPod("default", "pod-f", "node-1", FALSE, "Failed", 100, 128)

BuildPods ==
    { PodA, PodFull, PodBig, PodOnNodeZero, PodLost,
      PodNil, PodUnbound, PodDeleted, PodSucceeded, PodFailed }

\* Lists of distinct elements of S, of at most n elements.
ListsUpTo(S, n) ==
    { l \in SeqsUpTo(S, n) : \A i, j \in 1..Len(l) : l[i] = l[j] => i = j }

BuildNodeLists == { << Node1 >>, << NodeZero, Node1 >> }

BuildNamespaceLists == { << >>, << NamespaceKubeSystem, NamespaceDefault >> }

\* Usage maps: the nil map, and a map with an entry whose CPU value is zero, one
\* whose memory value is zero, a complete one and one for a pod that is skipped.
BuildUsageMaps ==
    { NilMap,
      MakeMap([k \in {"default/pod-a", "payments-prod/pod-full", "default/pod-big",
                      "ghost/pod-s"} |->
                  IF k = "default/pod-a"
                  THEN [CPUUsageMilli |-> 0, MemoryUsageBytes |-> 800]
                  ELSE IF k = "payments-prod/pod-full"
                  THEN [CPUUsageMilli |-> 1800, MemoryUsageBytes |-> 0]
                  ELSE IF k = "default/pod-big"
                  THEN [CPUUsageMilli |-> 2600, MemoryUsageBytes |-> 300]
                  ELSE [CPUUsageMilli |-> 50, MemoryUsageBytes |-> 60]]) }

BuildCalls ==
    { [fn |-> "Build", nodes |-> ns, namespaces |-> nss, pods |-> ps, usage |-> u,
       generatedAt |-> 1] :
        ns \in BuildNodeLists, nss \in BuildNamespaceLists,
        ps \in ListsUpTo(BuildPods, MaxPods), u \in BuildUsageMaps }

BuildInit ==
    /\ NoProcess
    /\ input \in BuildCalls
    /\ output = NoCall

\* The list without its element number i.
Without(l, i) == SubSeq(l, 1, i - 1) \o SubSeq(l, i + 1, Len(l))

\* A plausible slip: a lookup that enters the zero value under a missing key.
MapReadInserting(m, key) ==
    [value |-> MapGet(m, key),
     after |-> IF m.isNil \/ key \in DOMAIN m.entries THEN m
               ELSE MakeMap([k \in (DOMAIN m.entries) \cup { key } |->
                               IF k = key THEN ZeroUsage ELSE m.entries[k]])]

\* podUsage := usage[key]: the value read, and the map after the read.
MapRead(m, key) == [value |-> MapGet(m, key), after |-> m]

\* The usage map after Build's pod loop: its one access to the map is the read
\* of usage[key] for each pod that is not skipped.
RECURSIVE UsageAfter(_, _)
UsageAfter(ps, usageMap) ==
    IF ps = << >>
    THEN usageMap
    ELSE UsageAfter(Tail(ps),
                    IF skipPod(Head(ps)) THEN usageMap
                    ELSE MapRead(usageMap,
                                 PodKey(Head(ps).Namespace, Head(ps).Name)).after)

\* The usage map without the entries whose key is that of no pod Build counts.
LiveUsage(usageMap, ps) ==
    LET live == { PodKey(ps[i].Namespace, ps[i].Name) :
                    i \in { j \in 1..Len(ps) : ~skipPod(ps[j]) } }
    IN  IF usageMap.isNil THEN usageMap
        ELSE MakeMap([k \in (DOMAIN usageMap.entries) \cap live |-> usageMap.entries[k]])

\* Build is called on the pod list, on each of its prefixes, on the list with one
\* pod left out and with a usage map stripped of its stale entries; all else the
\* same.  usageAfter is the usage map once the call has returned.
BuildCall ==
    /\ input.fn = "Build"
    /\ output = NoCall
    /\ LET on(ps) == Build(Builder, input.nodes, input.namespaces, ps, input.usage,
                           input.generatedAt)
       IN  output' = Returned("Build",
                 [full |-> on(input.pods),
                  prefix |-> [k \in 0..Len(input.pods) |-> on(SubSeq(input.pods, 1, k))],
                  without |-> [i \in 1..Len(input.pods) |-> on(Without(input.pods, i))],
                  live |-> Build(Builder, input.nodes, input.namespaces, input.pods,
                                 LiveUsage(input.usage, input.pods), input.generatedAt),
                  usageAfter |-> UsageAfter(input.pods, input.usage)])
    /\ UNCHANGED << process, input >>

BuildSpec == BuildInit /\ [][BuildCall]_vars

\* The four grounds on which a pod is left out of the aggregation.
Excluded(pod) ==
    \/ pod.isNil
    \/ pod.NodeName = ""
    \/ pod.Deleted
    \/ pod.Phase = "Succeeded"
    \/ pod.Phase = "Failed"

\* The namespace record of a snapshot for a name; zero counters when it has none.
NamespaceOf(snap, name) ==
    IF \E i \in 1..Len(snap.Namespaces) : snap.Namespaces[i].Namespace = name
    THEN snap.Namespaces[CHOOSE i \in 1..Len(snap.Namespaces) :
                            snap.Namespaces[i].Namespace = name]
    ELSE NewNamespaceRecord("", name, NilMap, "")

\* C17: a pod that is nil, unbound, marked deleted or in phase Succeeded or Failed
\* counts for nothing: the list with it yields the very snapshot the list without
\* it yields, and no namespace record is made for it.
C17_SkippedPodChangesNothing ==
    output.fn = "Build" =>
        \A i \in 1..Len(input.pods) :
            Excluded(input.pods[i]) => output.value.without[i] = output.value.full

\* A Succeeded pod of an undeclared namespace stands before an aggregated pod, and
\* the snapshot has no record of that namespace.
C17_Witness ==
    /\ output.fn = "Build"
    /\ input.pods = << PodSucceeded, PodA >>
    /\ input.namespaces = << >>
    /\ Len(output.value.full.Namespaces) = 1
    /\ output.value.full.Namespaces[1].Namespace = "default"
    /\ output.value.full.Namespaces[1].PodCount = 1

\* C18: the namespace records of a snapshot are, each once, those of the declared
\* namespaces and of the namespaces of the pods that are not skipped: a declared
\* namespace without such a pod is there with zero counters, and a pod of an
\* undeclared namespace gets a record.
C18_NamespaceSet ==
    output.fn = "Build" =>
        LET out      == output.value.full.Namespaces
            names    == { out[i].Namespace : i \in 1..Len(out) }
            declared == { input.namespaces[i].Name : i \in 1..Len(input.namespaces) }
            podded   == { input.pods[i].Namespace :
                            i \in { j \in 1..Len(input.pods) : ~Excluded(input.pods[j]) } }
        IN  /\ names = declared \cup podded
            /\ Cardinality(names) = Len(out)
            /\ \A i \in 1..Len(out) :
                   IF out[i].Namespace \in podded
                   THEN out[i].PodCount > 0
                   ELSE /\ out[i].PodCount = 0
                        /\ out[i].CPURequestMilli = 0
                        /\ out[i].MemoryRequestBytes = 0
                        /\ out[i].CPUUsageMilli = 0
                        /\ out[i].MemoryUsageBytes = 0
                        /\ out[i].HourlyCost = 0

\* Two declared namespaces, one of them without pods, and a pod of a third.
C18_Witness ==
    /\ output.fn = "Build"
    /\ input.namespaces = << NamespaceKubeSystem, NamespaceDefault >>
    /\ input.pods = << PodFull, PodA >>
    /\ Len(output.value.full.Namespaces) = 3
    /\ NamespaceOf(output.value.full, "kube-system").PodCount = 0
    /\ NamespaceOf(output.value.full, "payments-prod").PodCount = 1

\* What a pod adds to its namespace record and to the cluster totals: the
\* difference between the snapshot of the pod list up to the pod and the snapshot
\* of the list before it.
Added(k) ==
    LET pod    == input.pods[k]
        before == output.value.prefix[k - 1]
        after  == output.value.prefix[k]
        nb     == NamespaceOf(before, pod.Namespace)
        na     == NamespaceOf(after, pod.Namespace)
    IN  [cpuUsage |-> na.CPUUsageMilli - nb.CPUUsageMilli,
         memUsage |-> na.MemoryUsageBytes - nb.MemoryUsageBytes,
         cpuReq   |-> na.CPURequestMilli - nb.CPURequestMilli,
         memReq   |-> na.MemoryRequestBytes - nb.MemoryRequestBytes,
         cost     |-> na.HourlyCost - nb.HourlyCost,
         totalCPUUsage |-> after.Resources.CPUUsageMilliTotal
                             - before.Resources.CPUUsageMilliTotal,
         totalMemUsage |-> after.Resources.MemoryUsageBytesTotal
                             - before.Resources.MemoryUsageBytesTotal,
         totalCPUReq   |-> after.Resources.CPURequestMilliTotal
                             - before.Resources.CPURequestMilliTotal,
         totalMemReq   |-> after.Resources.MemoryRequestBytesTotal
                             - before.Resources.MemoryRequestBytesTotal]

\* The requests of all containers of a pod, summed.
RequestSum(pod, resource) ==
    LET all == pod.Containers \o pod.InitContainers \o pod.EphemeralContainers
        sum[i \in 0..Len(all)] == IF i = 0 THEN 0 ELSE sum[i - 1] + all[i][resource]
    IN  sum[Len(all)]

\* C19: the usage a pod adds is decided per resource: the CPU value of its usage
\* entry when there is an entry with a non-zero CPU value, else its summed CPU
\* request, and the same for memory on its own; its requests are added to the
\* request totals in every case.
C19_UsageFallbackPerResource ==
    output.fn = "Build" =>
        \A k \in 1..Len(input.pods) :
            LET pod   == input.pods[k]
                key   == PodKey(pod.Namespace, pod.Name)
                has   == (~input.usage.isNil) /\ key \in DOMAIN input.usage.entries
                cpu   == IF has /\ input.usage.entries[key].CPUUsageMilli # 0
                         THEN input.usage.entries[key].CPUUsageMilli
                         ELSE RequestSum(pod, "cpu")
                mem   == IF has /\ input.usage.entries[key].MemoryUsageBytes # 0
                         THEN input.usage.entries[key].MemoryUsageBytes
                         ELSE RequestSum(pod, "mem")
            IN  ~Excluded(pod) =>
                    /\ Added(k).cpuUsage = cpu
                    /\ Added(k).totalCPUUsage = cpu
                    /\ Added(k).memUsage = mem
                    /\ Added(k).totalMemUsage = mem
                    /\ Added(k).cpuReq = RequestSum(pod, "cpu")
                    /\ Added(k).totalCPUReq = RequestSum(pod, "cpu")
                    /\ Added(k).memReq = RequestSum(pod, "mem")
                    /\ Added(k).totalMemReq = RequestSum(pod, "mem")

\* A pod whose usage entry has a zero CPU value and a memory value: its CPU
\* request (500) and the entry's memory (800) are what it adds.
C19_Witness ==
    /\ output.fn = "Build"
    /\ input.pods = << PodFull, PodA >>
    /\ ~input.usage.isNil
    /\ Added(2).cpuUsage = 500
    /\ Added(2).memUsage = 800
    /\ Added(2).cpuReq = 500
    /\ Added(2).memReq = 1024

\* The record of the node a pod is bound to, in the snapshot's node list.
NodeIndex(snap, name) ==
    { i \in 1..Len(snap.Nodes) : snap.Nodes[i].NodeName = name }

\* C20 (as the code has it): what a pod adds to its namespace's hourlyCost is never
\* more than the hourly cost of its node; a pod that requests as much CPU as a
\* node with allocatable CPU has, or more, adds exactly that node's hourly cost;
\* a pod on a node without allocatable CPU adds nothing.
C20_CostShareCapped ==
    output.fn = "Build" =>
        \A k \in 1..Len(input.pods) :
            \A i \in NodeIndex(output.value.full, input.pods[k].NodeName) :
                LET pod  == input.pods[k]
                    node == output.value.full.Nodes[i]
                IN  ~Excluded(pod) =>
                        /\ Added(k).cost >= 0
                        /\ Added(k).cost <= node.HourlyCost
                        /\ (/\ node.CPUAllocatableMilli > 0
                            /\ RequestSum(pod, "cpu") >= node.CPUAllocatableMilli)
                               => Added(k).cost = node.HourlyCost
                        /\ node.CPUAllocatableMilli = 0 => Added(k).cost = 0

\* A pod requesting 3000 millicores on a node of 2000 has added the node's cost.
C20_Witness ==
    /\ output.fn = "Build"
    /\ input.pods = << PodA, PodBig >>
    /\ input.nodes = << NodeZero, Node1 >>
    /\ Added(2).cost = 1000
    /\ Added(1).cost = 250

\* C20 (as stated): a pod whose CPU request equals or exceeds the allocatable CPU
\* of its node adds exactly that node's hourly cost, and no pod adds more.
C20_FullCostAtOrAboveAllocatable ==
    output.fn = "Build" =>
        \A k \in 1..Len(input.pods) :
            \A i \in NodeIndex(output.value.full, input.pods[k].NodeName) :
                LET pod  == input.pods[k]
                    node == output.value.full.Nodes[i]
                IN  ~Excluded(pod) =>
                        /\ Added(k).cost <= node.HourlyCost
                        /\ RequestSum(pod, "cpu") >= node.CPUAllocatableMilli
                               => Added(k).cost = node.HourlyCost

\* The usage the pods of the list that are not skipped and are bound to the node
\* have added, per resource.
UsageOnNode(nodeName) ==
    LET on == { k \in 1..Len(input.pods) :
                  (~Excluded(input.pods[k])) /\ input.pods[k].NodeName = nodeName }
        sum[i \in 0..Len(input.pods)] ==
            IF i = 0 THEN [cpu |-> 0, mem |-> 0]
            ELSE IF i \in on
            THEN [cpu |-> sum[i - 1].cpu + Added(i).cpuUsage,
                  mem |-> sum[i - 1].mem + Added(i).memUsage]
            ELSE sum[i - 1]
    IN  sum[Len(input.pods)]

\* C21: the two usage percentages of every node record lie between 0 and 100
\* (10000 hundredths); usage above the allocatable amount gives exactly 100, and
\* an allocatable amount of zero gives 0.
C21_PercentClamped ==
    output.fn = "Build" =>
        \A i \in 1..Len(output.value.full.Nodes) :
            LET node == output.value.full.Nodes[i]
                used == UsageOnNode(node.NodeName)
            IN  /\ node.CPUUsagePercent \in 0..10000
                /\ node.MemoryUsagePercent \in 0..10000
                /\ (node.CPUAllocatableMilli > 0 /\ used.cpu > node.CPUAllocatableMilli)
                       => node.CPUUsagePercent = 10000
                /\ (node.MemoryAllocatableBytes > 0
                        /\ used.mem > node.MemoryAllocatableBytes)
                       => node.MemoryUsagePercent = 10000
                /\ node.CPUAllocatableMilli <= 0 => node.CPUUsagePercent = 0
                /\ node.MemoryAllocatableBytes <= 0 => node.MemoryUsagePercent = 0

\* 3100 millicores are used on a node of 2000: its CPU percentage is 100, and the
\* node without allocatable resources has 0.
C21_Witness ==
    /\ output.fn = "Build"
    /\ input.pods = << PodBig, PodA >>
    /\ input.nodes = << NodeZero, Node1 >>
    /\ ~input.usage.isNil
    /\ UsageOnNode("node-1").cpu = 3100
    /\ output.value.full.Nodes[2].NodeName = "node-1"
    /\ output.value.full.Nodes[2].CPUUsagePercent = 10000
    /\ output.value.full.Nodes[1].CPUUsagePercent = 0

(***************************************************************************)
(* ns.HourlyCost += share * nodeAgg.record.HourlyCost, as float64 does it: *)
(* every sum is rounded to the nearest value the significand can hold,     *)
(* ties to the even one.  Values are whole units; the significand has      *)
(* MantissaBits bits instead of 53.                                        *)
(***************************************************************************)
\* The nearest representable value to the natural number x.
RoundFloat(x) ==
    LET pow[n \in 0..31] == IF n = 0 THEN 1 ELSE 2 * pow[n - 1]
        bits == CHOOSE n \in 0..30 : pow[n] > x /\ (n = 0 \/ pow[n - 1] <= x)
        ulp  == IF bits <= MantissaBits THEN 1 ELSE pow[bits - MantissaBits]
        low  == (x \div ulp) * ulp
        rest == x - low
    IN  IF 2 * rest < ulp THEN low
        ELSE IF 2 * rest > ulp THEN low + ulp
        ELSE IF (low \div ulp) % 2 = 0 THEN low ELSE low + ulp

\* The value of ns.HourlyCost after the pod loop has added the amounts in list order.
RECURSIVE HourlyCostSum(_)
HourlyCostSum(amounts) ==
    IF amounts = << >> THEN 0
    ELSE RoundFloat(HourlyCostSum(SubSeq(amounts, 1, Len(amounts) - 1))
                      + amounts[Len(amounts)])

\* Cost shares of the pods of one namespace, each a representable value.
CostAmounts == { 1, 3, 16, 32 }

\* The pods of a namespace reach Build in the order the lister returns them: the sum
\* is taken for the list, and for every other order of the same pods.
CostSumInit ==
    /\ NoProcess
    /\ input \in { [fn |-> "HourlyCostSum", amounts |-> a] :
                     a \in SeqsUpTo(CostAmounts, MaxAmounts) }
    /\ output = NoCall

CostSumCall ==
    /\ input.fn = "HourlyCostSum"
    /\ output = NoCall
    /\ output' = Returned("HourlyCostSum",
           [sum      |-> HourlyCostSum(input.amounts),
            permuted |-> { HourlyCostSum([i \in DOMAIN o |-> input.amounts[o[i]]]) :
                             o \in Orderings(DOMAIN input.amounts) }])
    /\ UNCHANGED << process, input >>

CostSumSpec == CostSumInit /\ [][CostSumCall]_vars

\* C22 (as stated): the same pods in any order of the pod list give the identical
\* snapshot, so the identical hourlyCost of their namespace.
C22_SameCostInAnyOrder ==
    output.fn = "HourlyCostSum" => output.value.permuted = { output.value.sum }

\* C23: a pod that is not skipped and whose node has no record in the node list
\* still adds one to the pod count of its namespace and its requests and usage to
\* the namespace record and the cluster totals; it changes no node record and
\* adds nothing to the hourlyCost of any namespace.
C23_PodOfUnknownNode ==
    output.fn = "Build" =>
        \A k \in 1..Len(input.pods) :
            LET pod    == input.pods[k]
                before == output.value.prefix[k - 1]
                after  == output.value.prefix[k]
            IN  ((~Excluded(pod)) /\ NodeIndex(after, pod.NodeName) = { }) =>
                    /\ NamespaceOf(after, pod.Namespace).PodCount
                         = NamespaceOf(before, pod.Namespace).PodCount + 1
                    /\ Added(k).cpuReq = RequestSum(pod, "cpu")
                    /\ Added(k).memReq = RequestSum(pod, "mem")
                    /\ Added(k).totalCPUReq = RequestSum(pod, "cpu")
                    /\ Added(k).totalMemReq = RequestSum(pod, "mem")
                    /\ Added(k).cpuUsage = Added(k).totalCPUUsage
                    /\ Added(k).memUsage = Added(k).totalMemUsage
                    /\ Added(k).cpuUsage > 0
                    /\ Added(k).memUsage > 0
                    /\ after.Nodes = before.Nodes
                    /\ \A i \in 1..Len(after.Namespaces) :
                           after.Namespaces[i].HourlyCost
                             = NamespaceOf(before, after.Namespaces[i].Namespace).HourlyCost

\* A pod bound to node-x, which the node list does not hold, comes after a pod of
\* node-1: the namespace counts two pods, node-1 one, and the cost is that of the
\* first pod alone.
C23_Witness ==
    /\ output.fn = "Build"
    /\ input.pods = << PodA, PodLost >>
    /\ input.nodes = << Node1 >>
    /\ NamespaceOf(output.value.full, "default").PodCount = 2
    /\ NamespaceOf(output.value.full, "default").CPURequestMilli = 750
    /\ NamespaceOf(output.value.full, "default").HourlyCost = 250
    /\ output.value.full.Nodes[1].PodCount = 1

\* What one pod of the call is charged by the rule of the pod loop: nothing unless
\* it is counted, sits on a recorded node with allocatable CPU and an hourly cost,
\* and requests CPU; else min(1, cpuRequest / allocatable) of the node's cost.
ChargeOf(pod) ==
    LET at   == NodeIndex(output.value.full, pod.NodeName)
        node == output.value.full.Nodes[CHOOSE i \in at : TRUE]
        req  == RequestSum(pod, "cpu")
    IN  IF Excluded(pod) \/ at = { } THEN 0
        ELSE IF node.CPUAllocatableMilli <= 0 \/ node.HourlyCost <= 0 \/ req <= 0 THEN 0
        ELSE IF req >= node.CPUAllocatableMilli THEN node.HourlyCost
        ELSE (req * node.HourlyCost) \div node.CPUAllocatableMilli

\* The charges of the pods of the call that satisfy a condition, summed.
ChargeSum(Counts(_)) ==
    LET sum[k \in 0..Len(input.pods)] ==
            IF k = 0 THEN 0
            ELSE sum[k - 1] + (IF Counts(input.pods[k]) THEN ChargeOf(input.pods[k]) ELSE 0)
    IN  sum[Len(input.pods)]

\* C24: the hourlyCost of every namespace record of a Build result is the sum of
\* min(1, cpuRequest / allocatable CPU of the node) times the node's hourly cost
\* over the namespace's counted pods on a recorded node with allocatable CPU and
\* an hourly cost that request CPU; every other pod adds nothing; the charges of
\* the pods of one node are not capped together.
C24_HourlyCostIsSumOfShares ==
    output.fn = "Build" =>
        \A i \in 1..Len(output.value.full.Namespaces) :
            LET record == output.value.full.Namespaces[i]
                InNamespace(pod) == (~pod.isNil) /\ pod.Namespace = record.Namespace
            IN  record.HourlyCost = ChargeSum(InNamespace)

\* Two pods of node-1 (2000m, 0.1 USD): one requests all of its CPU, one more
\* than it has; each is charged the whole node, so node-1's pods are charged
\* twice its hourly cost.
C24_Witness ==
    /\ output.fn = "Build"
    /\ input.pods = << PodFull, PodBig >>
    /\ NamespaceOf(output.value.full, "payments-prod").HourlyCost = 1000
    /\ NamespaceOf(output.value.full, "default").HourlyCost = 1000
    /\ LET OnNode1(pod) == (~pod.isNil) /\ pod.NodeName = "node-1"
       IN  ChargeSum(OnNode1) = 2000
    /\ \E i \in NodeIndex(output.value.full, "node-1") :
           output.value.full.Nodes[i].HourlyCost = 1000

\* The production needles in force for a configuration: the configured ones, or
\* "prod" when none is configured.
Needles(cfg) ==
    IF cfg.ProductionNameContains = << >> THEN << "prod" >> ELSE cfg.ProductionNameContains

\* C25: when no configured label key decides, the name decides in a fixed order:
\* "production" when the lower-cased name contains a non-empty production needle,
\* also when the name is a system namespace; else "system" when the name equals a
\* system-namespace entry without regard to case; else "nonprod".
C25_NameHeuristicsInOrder ==
    (output.fn = "Classify" /\ CarriedKeys(input.cfg, input.labels) = { }) =>
        output.value =
            IF \E i \in 1..Len(Needles(input.cfg)) :
                   /\ Needles(input.cfg)[i] # ""
                   /\ Contains(ToLower(input.name), ToLower(Needles(input.cfg)[i]))
            THEN "production"
            ELSE IF Listed(input.cfg.SystemNamespaces, input.name)
            THEN "system"
            ELSE "nonprod"

\* "PRD-api" is a system namespace of the configuration and holds its needle
\* "PRD": without a deciding label it is production.
C25_Witness ==
    /\ output.fn = "Classify"
    /\ input.cfg = ClassifierConfigTiers
    /\ input.name = "PRD-api"
    /\ CarriedKeys(input.cfg, input.labels) = { }
    /\ Listed(input.cfg.SystemNamespaces, input.name)
    /\ output.value = "production"

\* "kube-system", listed as "Kube-System" and holding no needle, is system.
C25_WitnessSystem ==
    /\ output.fn = "Classify"
    /\ input.cfg = ClassifierConfigTiers
    /\ input.name = "kube-system"
    /\ CarriedKeys(input.cfg, input.labels) = { }
    /\ output.value = "system"

\* Where the process is once runSnapshotLoop has been launched.
LoopPositions ==
    { "listNodes", "listNamespaces", "listPods", "collect", "publish", "select",
      "returned" }

\* C26: the loop reads the listers only after Start has returned without error:
\* the loop runs only in a process whose Start succeeded with the three kinds
\* synced, it is launched from the point after that return and from nowhere else,
\* Start is not called a second time, and a process whose Start returned an error
\* has exited for good, with no list read and no snapshot published.
C26_LoopOnlyAfterStart ==
    /\ [](pc \in LoopPositions => (startErr = NoError /\ synced = Kinds))
    /\ []((pc = "cacheStart" \/ startErr # NoError)
            => (/\ ~Latest(store).found
                /\ nodes = << >> /\ namespaces = << >> /\ pods = << >>
                /\ hist = InitHist))
    /\ [](startErr # NoError => pc = "exited")
    /\ [][ pc # "cacheStart" => pc' # "cacheStart" ]_vars
    /\ [][ pc = "exited" => pc' = "exited" ]_vars
    /\ [][ (pc' \in LoopPositions /\ pc \notin LoopPositions)
             => (pc = "started" /\ startErr = NoError) ]_vars

\* The loop has read the three listers, after a Start that returned no error.
C26_Witness ==
    /\ pc = "collect"
    /\ startErr = NoError
    /\ synced = Kinds
    /\ Len(nodes) > 0
    /\ Len(pods) > 0

(***************************************************************************)
(* CollectPodMetrics called by several goroutines at once.  A Go map is a  *)
(* reference: the maps the calls make live in heap, under the identifier   *)
(* of the call that made them, and c.last and the values returned point    *)
(* into it.  Every access to shared memory is a step of its own.           *)
(***************************************************************************)
Routines == { "g1", "g2" }

MaxCalls == 2

\* A non-nil map value: a pointer to the map with that identifier.
MapRef(id) == [isNil |-> FALSE, ref |-> id]

\* A goroutine between two calls.
IdleRoutine(calls, ret) ==
    [pc |-> "idle", items |-> << >>, err |-> NoError, result |-> << >>, k |-> 0,
     cached |-> NilMap, calls |-> calls, ret |-> ret]

\* A plausible slip: the failure path reads c.last without taking the lock.
onListErrorUnlocked == "read"

\* Where CollectPodMetrics goes when List failed: to c.mu.RLock().
onListError == "rlock"

ConcurrentInit ==
    /\ podsClient \in BOOLEAN
    /\ last = NilMap
    /\ cacheNodes = { }
    /\ cacheNamespaces = { }
    /\ cachePods = { }
    /\ store = NewStore
    /\ ctxDone = FALSE
    /\ tickerC = FALSE
    /\ pc = "call"
    /\ nodes = << >>
    /\ namespaces = << >>
    /\ pods = << >>
    /\ usage = NilMap
    /\ metricsErr = NoError
    /\ retErr = NoError
    /\ hist = InitHist
    /\ synced = { }
    /\ startErr = NoError
    /\ input = NoCall
    /\ output = NoCall
    /\ mu = RWMutexZero
    /\ heap = [id \in { } |-> 0]
    /\ routines = [g \in Routines |-> IdleRoutine(0, [usage |-> NilMap, err |-> NoError])]

\* What the steps of the concurrent calls leave alone.
sequential ==
    << podsClient, cacheNodes, cacheNamespaces, cachePods, store, ctxDone, tickerC, pc,
       nodes, namespaces, pods, usage, metricsErr, retErr, hist, synced, startErr,
       input, output >>

\* A goroutine calls CollectPodMetrics; without a metrics client the call
\* returns at once.
CallCollect(g) ==
    /\ routines[g].pc = "idle"
    /\ routines[g].calls < MaxCalls
    /\ routines' = [routines EXCEPT ![g] =
          IF podsClient
          THEN [@ EXCEPT !.pc = "list"]
          ELSE IdleRoutine(@.calls + 1, [usage |-> NilMap, err |-> ErrNotConfigured])]
    /\ UNCHANGED << sequential, last, mu, heap >>

\* What List returns to the concurrent calls: two pods, one of them alone, or an
\* error.
ConcurrentResponses ==
    LET item(name) ==
            [Namespace |-> "default", Name |-> name,
             Containers |-> << ContainerA, ContainerB >>]
    IN  { [items |-> << item("pod-a"), item("pod-b") >>, err |-> NoError],
          [items |-> << item("pod-b") >>, err |-> NoError],
          [items |-> << >>, err |-> "metrics unavailable"] }

\* c.pods.List returns.
ListMetrics(g) ==
    \E r \in ConcurrentResponses :
        /\ routines[g].pc = "list"
        /\ routines' = [routines EXCEPT ![g] =
              IF r.err # NoError
              THEN [@ EXCEPT !.pc = onListError, !.err = r.err]
              ELSE [@ EXCEPT !.pc = "make", !.items = r.items]]
        /\ UNCHANGED << sequential, last, mu, heap >>

\* c.mu.RLock(): granted while no writer holds the mutex.
RLock(g) ==
    /\ routines[g].pc = "rlock"
    /\ mu.writer = "none"
    /\ mu' = [mu EXCEPT !.readers = @ \cup { g }]
    /\ routines' = [routines EXCEPT ![g].pc = "read"]
    /\ UNCHANGED << sequential, last, heap >>

\* cached := c.last
ReadLast(g) ==
    /\ routines[g].pc = "read"
    /\ routines' = [routines EXCEPT ![g].pc = "runlock", ![g].cached = last]
    /\ UNCHANGED << sequential, last, mu, heap >>

\* c.mu.RUnlock()
RUnlock(g) ==
    /\ routines[g].pc = "runlock"
    /\ mu' = [mu EXCEPT !.readers = @ \ { g }]
    /\ routines' = [routines EXCEPT ![g].pc = "returnCached"]
    /\ UNCHANGED << sequential, last, heap >>

\* return cached, fmt.Errorf(...) (cached is nil when there was no cache).
ReturnCached(g) ==
    /\ routines[g].pc = "returnCached"
    /\ routines' = [routines EXCEPT ![g] =
          IdleRoutine(@.calls + 1,
                      [usage |-> @.cached, err |-> WrapListErr(@.err)])]
    /\ UNCHANGED << sequential, last, mu, heap >>

\* result := make(map[string]kube.PodUsage, len(metricsList.Items)); escaped
\* records that the map has been stored in c.last or returned.
MakeResult(g) ==
    LET id == << g, routines[g].calls >>
    IN  /\ routines[g].pc = "make"
        /\ heap' = [i \in (DOMAIN heap) \cup { id } |->
                       IF i = id
                       THEN [entries |-> [k \in { } |-> ZeroUsage],
                             from |-> routines[g].items, escaped |-> FALSE]
                       ELSE heap[i]]
        /\ routines' = [routines EXCEPT
              ![g].pc = IF routines[g].items = << >> THEN "lock" ELSE "fill",
              ![g].result = id, ![g].k = 1]
        /\ UNCHANGED << sequential, last, mu >>

\* One round of the range loop: result[key] = kube.PodUsage{...}
FillResult(g) ==
    LET r    == routines[g]
        m    == r.items[r.k]
        key  == PodKey(m.Namespace, m.Name)
        old  == heap[r.result].entries
    IN  /\ r.pc = "fill"
        /\ heap' = [heap EXCEPT ![r.result].entries =
                       [k \in (DOMAIN old) \cup { key } |->
                           IF k = key THEN SumContainers(m.Containers) ELSE old[k]]]
        /\ routines' = [routines EXCEPT
              ![g].pc = IF r.k = Len(r.items) THEN "lock" ELSE "fill",
              ![g].k = r.k + 1]
        /\ UNCHANGED << sequential, last, mu >>

\* c.mu.Lock(): granted while nobody holds the mutex.
Lock(g) ==
    /\ routines[g].pc = "lock"
    /\ mu = RWMutexZero
    /\ mu' = [mu EXCEPT !.writer = g]
    /\ routines' = [routines EXCEPT ![g].pc = "store"]
    /\ UNCHANGED << sequential, last, heap >>

\* c.last = result
StoreLast(g) ==
    /\ routines[g].pc = "store"
    /\ last' = MapRef(routines[g].result)
    /\ heap' = [heap EXCEPT ![routines[g].result].escaped = TRUE]
    /\ routines' = [routines EXCEPT ![g].pc = "unlock"]
    /\ UNCHANGED << sequential, mu >>

\* c.mu.Unlock()
Unlock(g) ==
    /\ routines[g].pc = "unlock"
    /\ mu' = [mu EXCEPT !.writer = "none"]
    /\ routines' = [routines EXCEPT ![g].pc = "return"]
    /\ UNCHANGED << sequential, last, heap >>

\* return result, nil
ReturnResult(g) ==
    /\ routines[g].pc = "return"
    /\ heap' = [heap EXCEPT ![routines[g].result].escaped = TRUE]
    /\ routines' = [routines EXCEPT ![g] =
          IdleRoutine(@.calls + 1, [usage |-> MapRef(@.result), err |-> NoError])]
    /\ UNCHANGED << sequential, last, mu >>

ConcurrentNext ==
    \E g \in Routines :
        \/ CallCollect(g)
        \/ ListMetrics(g)
        \/ RLock(g)
        \/ ReadLast(g)
        \/ RUnlock(g)
        \/ ReturnCached(g)
        \/ MakeResult(g)
        \/ FillResult(g)
        \/ Lock(g)
        \/ StoreLast(g)
        \/ Unlock(g)
        \/ ReturnResult(g)

ConcurrentSpec == ConcurrentInit /\ [][ConcurrentNext]_vars

\* C27: under every interleaving of concurrent calls, c.last is read only by a
\* goroutine holding the read lock and replaced only by one holding the write
\* lock, and no reader holds the mutex together with a writer; the cache is
\* absent or points to the complete result of one successful query; and a map
\* that has been stored in the cache or returned is never modified again.
C27_CacheOnlyUnderLock ==
    /\ [](mu.writer # "none" => mu.readers = { })
    /\ [](\A g \in Routines :
             /\ routines[g].pc = "read" => (g \in mu.readers /\ mu.writer = "none")
             /\ routines[g].pc = "store" => (mu.writer = g /\ mu.readers = { }))
    /\ [][ last' # last
             => \E g \in Routines : routines[g].pc = "store" /\ mu.writer = g ]_vars
    /\ [](last.isNil
            \/ heap[last.ref].entries = PodUsageEntries(heap[last.ref].from))
    /\ [](\A g \in Routines :
             routines[g].ret.usage.isNil
               \/ heap[routines[g].ret.usage.ref].entries
                    = PodUsageEntries(heap[routines[g].ret.usage.ref].from))
    /\ [][ \A id \in DOMAIN heap :
               heap[id].escaped => heap'[id].entries = heap[id].entries ]_vars

\* One goroutine has filled half of its result map while the other, holding the
\* read lock after a failed query, reads a cache that is there.
C27_Witness ==
    \E g \in Routines, h \in Routines :
        /\ g # h
        /\ routines[g].pc = "fill"
        /\ routines[g].k = 2
        /\ Cardinality(DOMAIN heap[routines[g].result].entries) = 1
        /\ Cardinality(DOMAIN PodUsageEntries(routines[g].items)) = 2
        /\ routines[h].pc = "read"
        /\ h \in mu.readers
        /\ ~last.isNil

\* The sum of one field over a list of records.
FieldSum(records, field) ==
    LET sum[i \in 0..Len(records)] ==
            IF i = 0 THEN 0 ELSE sum[i - 1] + records[i][field]
    IN  sum[Len(records)]

\* C28: in a Build result each of the four cluster totals is the sum of the
\* corresponding field over the namespace records; the pod counts of the
\* namespace records sum to the number of counted pods; and the pod counts of the
\* node records sum to the number of counted pods whose node has a record, which
\* is never more.
C28_TotalsConserved ==
    output.fn = "Build" =>
        LET snap    == output.value.full
            counted == { k \in 1..Len(input.pods) : ~Excluded(input.pods[k]) }
            onNode  == { k \in counted : NodeIndex(snap, input.pods[k].NodeName) # { } }
        IN  /\ snap.Resources.CPURequestMilliTotal
                 = FieldSum(snap.Namespaces, "CPURequestMilli")
            /\ snap.Resources.CPUUsageMilliTotal
                 = FieldSum(snap.Namespaces, "CPUUsageMilli")
            /\ snap.Resources.MemoryRequestBytesTotal
                 = FieldSum(snap.Namespaces, "MemoryRequestBytes")
            /\ snap.Resources.MemoryUsageBytesTotal
                 = FieldSum(snap.Namespaces, "MemoryUsageBytes")
            /\ FieldSum(snap.Namespaces, "PodCount") = Cardinality(counted)
            /\ FieldSum(snap.Nodes, "PodCount") = Cardinality(onNode)
            /\ FieldSum(snap.Nodes, "PodCount") <= FieldSum(snap.Namespaces, "PodCount")

\* Two counted pods of two namespaces, one of them on a node without a record:
\* the totals are the sums over both namespaces, and the nodes count one pod.
C28_Witness ==
    /\ output.fn = "Build"
    /\ input.pods = << PodFull, PodLost >>
    /\ input.nodes = << NodeZero, Node1 >>
    /\ output.value.full.Resources.CPURequestMilliTotal = 2250
    /\ FieldSum(output.value.full.Namespaces, "PodCount") = 2
    /\ FieldSum(output.value.full.Nodes, "PodCount") = 1

\* The keys of the usage map that are the key of no counted pod of the call.
StaleKeys ==
    IF input.usage.isNil THEN { }
    ELSE { key \in DOMAIN input.usage.entries :
             \A k \in 1..Len(input.pods) :
                 \/ Excluded(input.pods[k])
                 \/ PodKey(input.pods[k].Namespace, input.pods[k].Name) # key }

\* C29: the entries of the usage map whose key is that of no counted pod have no
\* effect: Build gives the same result without them, and a namespace without a
\* counted pod has no usage; and Build leaves the usage map it is given, which is
\* the collector's cached map in degraded mode, as it was.
C29_StaleUsageIgnored ==
    output.fn = "Build" =>
        /\ output.value.live = output.value.full
        /\ output.value.usageAfter = input.usage
        /\ \A i \in 1..Len(output.value.full.Namespaces) :
               LET record  == output.value.full.Namespaces[i]
                   counted == { k \in 1..Len(input.pods) :
                                  /\ ~Excluded(input.pods[k])
                                  /\ input.pods[k].Namespace = record.Namespace }
               IN  counted = { } => (record.CPUUsageMilli = 0
                                       /\ record.MemoryUsageBytes = 0)

\* The usage map holds an entry for ghost/pod-s, a pod that has succeeded, and
\* entries for pods that are not in the list; the list holds a pod without an
\* entry: the result has no ghost namespace and the map is as it was.
C29_Witness ==
    /\ output.fn = "Build"
    /\ input.pods = << PodSucceeded, PodLost >>
    /\ "ghost/pod-s" \in StaleKeys
    /\ Cardinality(StaleKeys) = 4
    /\ NamespaceOf(output.value.full, "ghost").PodCount = 0
    /\ output.value.full.Resources.CPUUsageMilliTotal = 250
    /\ output.value.usageAfter = input.usage

(***************************************************************************)
(* config.Load, for two settings: the log level (a string) and the scrape  *)
(* interval (an int).  A flag that is not given is Absent; an environment  *)
(* variable that is not set reads as the empty string, as os.Getenv has it.*)
(***************************************************************************)
Absent == [given |-> FALSE, value |-> ""]

Given(v) == [given |-> TRUE, value |-> v]

\* DefaultConfig
DefaultConfig == [LogLevel |-> "info", ScrapeIntervalSeconds |-> 60]

\* The zero Config.
ZeroConfig == [LogLevel |-> "", ScrapeIntervalSeconds |-> 0]

\* The value of a string of decimal digits, -1 when a byte is no digit.
RECURSIVE DigitsValue(_, _)
DigitsValue(str, acc) ==
    IF Len(str) = 0
    THEN acc
    ELSE LET d == IndexOf("0123456789", CharAt(str, 1))
         IN  IF d = 0 THEN -1
             ELSE DigitsValue(SubSeq(str, 2, Len(str)), 10 * acc + d - 1)

\* strconv.Atoi: an optional sign and decimal digits.
Atoi(str) ==
    LET signed == Len(str) > 0 /\ CharAt(str, 1) \in { "-", "+" }
        digits == IF signed THEN SubSeq(str, 2, Len(str)) ELSE str
        n      == DigitsValue(digits, 0)
    IN  IF Len(digits) = 0 \/ n < 0 THEN [ok |-> FALSE, value |-> 0]
        ELSE [ok |-> TRUE, value |-> IF signed /\ CharAt(str, 1) = "-" THEN 0 - n ELSE n]

\* envOrDefault
envOrDefault(env, key, def) == IF env[key] # "" THEN env[key] ELSE def

\* yaml.Unmarshal into a Config: a key the document lacks leaves the zero value.
Unmarshal(data) ==
    [LogLevel |-> IF "logLevel" \in DOMAIN data THEN data["logLevel"] ELSE "",
     ScrapeIntervalSeconds |->
         IF "scrapeIntervalSeconds" \in DOMAIN data
         THEN data["scrapeIntervalSeconds"] ELSE 0]

\* mergeConfigs: every non-zero field of override replaces that of base.
mergeConfigs(base, override) ==
    [LogLevel |-> IF override.LogLevel # "" THEN override.LogLevel ELSE base.LogLevel,
     ScrapeIntervalSeconds |->
         IF override.ScrapeIntervalSeconds # 0 THEN override.ScrapeIntervalSeconds
         ELSE base.ScrapeIntervalSeconds]

\* applyEnvOverrides
applyEnvOverrides(cfg, env) ==
    [LogLevel |-> IF env["CLUSTERCOST_LOG_LEVEL"] # ""
                  THEN env["CLUSTERCOST_LOG_LEVEL"] ELSE cfg.LogLevel,
     ScrapeIntervalSeconds |->
         IF env["CLUSTERCOST_SCRAPE_INTERVAL"] # ""
              /\ Atoi(env["CLUSTERCOST_SCRAPE_INTERVAL"]).ok
         THEN Atoi(env["CLUSTERCOST_SCRAPE_INTERVAL"]).value
         ELSE cfg.ScrapeIntervalSeconds]

ErrFlagParse == "invalid value for flag -scrape-interval: parse error"

ErrReadConfigFile == "read config file: no such file or directory"

\* Load: the flags are parsed into the defaults, then the config file is merged
\* in, then the environment variables are applied; files maps a path to the
\* document it holds.
Load(args, env, files) ==
    LET configFile == IF args.config.given THEN args.config.value
                      ELSE envOrDefault(env, "CLUSTERCOST_CONFIG_FILE", "")
        flagged    == [LogLevel |-> IF args.logLevel.given THEN args.logLevel.value
                                    ELSE DefaultConfig.LogLevel,
                       ScrapeIntervalSeconds |->
                           IF args.scrapeInterval.given
                           THEN Atoi(args.scrapeInterval.value).value
                           ELSE DefaultConfig.ScrapeIntervalSeconds]
        merged     == IF configFile # ""
                      THEN mergeConfigs(flagged, Unmarshal(files[configFile]))
                      ELSE flagged
        applied    == applyEnvOverrides(merged, env)
    IN  IF args.scrapeInterval.given /\ ~Atoi(args.scrapeInterval.value).ok
        THEN [cfg |-> ZeroConfig, err |-> ErrFlagParse]
        ELSE IF configFile # "" /\ configFile \notin DOMAIN files
        THEN [cfg |-> ZeroConfig, err |-> ErrReadConfigFile]
        ELSE [cfg |-> [applied EXCEPT !.ScrapeIntervalSeconds = IF @ < 5 THEN 5 ELSE @],
              err |-> NoError]

\* The config files there are.
ConfigFiles ==
    [path \in { "/etc/agent.yaml", "/etc/interval.yaml" } |->
        IF path = "/etc/agent.yaml"
        THEN [key \in { "logLevel", "scrapeIntervalSeconds" } |->
                 IF key = "logLevel" THEN "error" ELSE 20]
        ELSE [key \in { "scrapeIntervalSeconds" } |-> 45]]

LoadCalls ==
    { [fn |-> "Load",
       args |-> [config |-> c, logLevel |-> l, scrapeInterval |-> i],
       env |-> [key \in { "CLUSTERCOST_CONFIG_FILE", "CLUSTERCOST_LOG_LEVEL",
                          "CLUSTERCOST_SCRAPE_INTERVAL" } |->
                   IF key = "CLUSTERCOST_CONFIG_FILE" THEN ec
                   ELSE IF key = "CLUSTERCOST_LOG_LEVEL" THEN el ELSE ei]] :
        c \in { Absent, Given("/etc/agent.yaml"), Given("/etc/none.yaml") },
        l \in { Absent, Given("debug") },
        i \in { Absent, Given("10"), Given("soon") },
        ec \in { "", "/etc/interval.yaml" },
        el \in { "", "warn" },
        ei \in { "", "30", "often" } }

LoadInit ==
    /\ NoProcess
    /\ input \in LoadCalls
    /\ output = NoCall

LoadCall ==
    /\ input.fn = "Load"
    /\ output = NoCall
    /\ output' = Returned("Load", Load(input.args, input.env, ConfigFiles))
    /\ UNCHANGED << process, input >>

LoadSpec == LoadInit /\ [][LoadCall]_vars

\* C30: in the configuration Load returns, a setting given as a flag has the
\* flag's value, whatever the config file and the environment say; a setting
\* not given as a flag but set (and readable) in the environment has the
\* environment's value, whatever the config file says.
C30_FlagsOverrideAll ==
    (output.fn = "Load" /\ output.value.err = NoError) =>
        /\ input.args.logLevel.given
             => output.value.cfg.LogLevel = input.args.logLevel.value
        /\ input.args.scrapeInterval.given
             => output.value.cfg.ScrapeIntervalSeconds
                  = Atoi(input.args.scrapeInterval.value).value
        /\ (~input.args.logLevel.given /\ input.env["CLUSTERCOST_LOG_LEVEL"] # "")
             => output.value.cfg.LogLevel = input.env["CLUSTERCOST_LOG_LEVEL"]
        /\ (~input.args.scrapeInterval.given
              /\ Atoi(input.env["CLUSTERCOST_SCRAPE_INTERVAL"]).ok)
             => output.value.cfg.ScrapeIntervalSeconds
                  = Atoi(input.env["CLUSTERCOST_SCRAPE_INTERVAL"]).value

====
